---- MODULE Spec2Model ----
(***************************************************************************)
(* Rise Beat (src/app/page.tsx, second Home component): the alarm          *)
(* scheduler, the playback cursor, the track resolver and the progress     *)
(* reporter, as a state machine.                                           *)
(*                                                                         *)
(* A handler is one action: the state updates it queues, the render that   *)
(* follows and the effects that render re-runs are one step.  An await on  *)
(* the blob store or on a play() promise ends a step; its continuation is  *)
(* a step of its own.                                                      *)
(***************************************************************************)
EXTENDS Integers, Sequences, FiniteSets, TLC

(***************************************************************************)
(* Wall clock.  An instant is a number of ticks since local midnight of    *)
(* day 0; a tick is a fraction of a minute (the code reads milliseconds).  *)
(* Days have a fixed length: no daylight-saving shift is modelled.         *)
(***************************************************************************)
TicksPerMinute == 2
MinutesPerHour == 60
HoursPerDay == 24
MaxDay == 0

TicksPerHour == MinutesPerHour * TicksPerMinute
TicksPerDay == HoursPerDay * TicksPerHour

\* Date.prototype.setHours(hour, minute, 0, 0) on a date of the local day of `d`
setHours(d, hour, minute) ==
  (d \div TicksPerDay) * TicksPerDay + hour * TicksPerHour + minute * TicksPerMinute

\* candidate.setDate(candidate.getDate() + 1)
setDatePlusOne(d) == d + TicksPerDay

\* Date.prototype.toISOString(): the instant written out as text (day, time of day)
toISOString(d) == <<d \div TicksPerDay, d % TicksPerDay>>

\* new Date(text).getTime()
parseDate(s) == s[1] * TicksPerDay + s[2]

\* JavaScript undefined / null
Undefined == <<>>
Null == "null"
NoDate == -1

(***************************************************************************)
(* Time strings are sequences of characters.                               *)
(***************************************************************************)
DigitChars == <<"0", "1", "2", "3", "4", "5", "6", "7", "8", "9">>

IsDigit(c) == \E i \in 1..10 : DigitChars[i] = c

DigitVal(c) == (CHOOSE i \in 1..10 : DigitChars[i] = c) - 1

\* /^\d{2}:\d{2}$/.test(time)
TimePatternTest(time) ==
  /\ Len(time) = 5
  /\ IsDigit(time[1]) /\ IsDigit(time[2])
  /\ time[3] = ":"
  /\ IsDigit(time[4]) /\ IsDigit(time[5])

\* time.split(":").map(Number)
SplitHour(time) == DigitVal(time[1]) * 10 + DigitVal(time[2])
SplitMinute(time) == DigitVal(time[4]) * 10 + DigitVal(time[5])

\* what <input type="time"> writes for a clock time
TimeString(h, m) ==
  <<DigitChars[(h \div 10) + 1], DigitChars[(h % 10) + 1], ":",
    DigitChars[(m \div 10) + 1], DigitChars[(m % 10) + 1]>>

calculateNextTriggerNoRollover(time, nowA, nowB) ==
  IF time = <<>> \/ ~TimePatternTest(time) THEN NoDate
  ELSE setHours(nowB, SplitHour(time), SplitMinute(time))

calculateNextTriggerRollAfter(time, nowA, nowB) ==
  IF time = <<>> \/ ~TimePatternTest(time) THEN NoDate
  ELSE LET candidate == setHours(nowB, SplitHour(time), SplitMinute(time))
       IN IF candidate < nowA THEN setDatePlusOne(candidate) ELSE candidate

calculateNextTriggerUnchecked(time, nowA, nowB) ==
  IF time = <<>> THEN NoDate
  ELSE IF ~TimePatternTest(time) THEN setDatePlusOne(setHours(nowB, 0, 0))
  ELSE LET candidate == setHours(nowB, SplitHour(time), SplitMinute(time))
       IN IF candidate <= nowA THEN setDatePlusOne(candidate) ELSE candidate

\* calculateNextTrigger(time); nowA and nowB are its two readings of the clock
\* (new Date() for `now`, then new Date() for `candidate`)
calculateNextTrigger(time, nowA, nowB) ==
  IF time = <<>> \/ ~TimePatternTest(time) THEN NoDate
  ELSE LET candidate == setHours(nowB, SplitHour(time), SplitMinute(time))
       IN IF candidate <= nowA THEN setDatePlusOne(candidate) ELSE candidate

\* next?.toISOString()
nextToISOString(next) == IF next = NoDate THEN Undefined ELSE toISOString(next)


(***************************************************************************)
(* The universe the inputs are drawn from.                                 *)
(***************************************************************************)
MediaIds == {"a", "b", "c"}
PlaylistIds == {"p1", "p2"}
MaxTracks == 3
MaxTimers == 2
MaxLoads == 2

NoUrl == <<>>

\* play length in seconds of the media stored under an id (a property of the blob)
MediaLength == [id \in MediaIds |-> CASE id = "a" -> 10 [] id = "b" -> 20 [] OTHER -> 30]

VARIABLES
  call,                \* one call of a pure function: its inputs and its result
  now,                 \* the wall clock (Date.now())
  alarm,               \* useState<AlarmSetting>
  playlists,           \* useState<Playlist[]>: playlist id -> fileIds
  mediaFiles,          \* useState<MediaFile[]>: media id -> entry
  editingPlaylist,     \* useState<Playlist | null>: the playlist draft
  timers,              \* the pending setTimeout callbacks of the browser
  alarmTimeoutRef,     \* alarmTimeoutRef.current (0 is null)
  playbackPlaylistId,  \* useState<string | null>
  currentTrackIndex,   \* useState(0)
  currentTrackUrl,     \* useState<string | null>
  isPlaying,           \* useState(false)
  needsManualPlay,     \* useState(false)
  missingObjectUrl,    \* useState(false)
  playbackMessage,     \* useState("待機中")
  progressSnapshot,    \* useState({ remaining: 0, percent: 0 })
  userInteracted,      \* useState(false)
  isiOS,               \* useMemo: the user agent is an iPhone/iPad/iPod
  sessionUrls,         \* sessionUrls.current: media id -> object URL
  blobs,               \* the blob store: the ids that have a blob
  element,             \* mediaElementRef.current: src, currentTime, state
  loads,               \* the setup() calls awaiting readBlob
  plays,               \* the element.play() promises not yet settled
  storage,             \* window.localStorage: the three persisted records
  ready,               \* useState(false): the startup load has completed
  mediaDb,             \* what mediaDbPromise resolves to: "open", or "failed" (null)
  lastOp,              \* history: the operation of the last step, and alarm.isOn before it
  ticked               \* history: a progress tick has reported since playback started

alarmVars == <<now, alarm, playlists, mediaFiles, editingPlaylist, timers, alarmTimeoutRef>>
cursorVars == <<playbackPlaylistId, currentTrackIndex, currentTrackUrl, isPlaying,
                needsManualPlay, missingObjectUrl, playbackMessage, progressSnapshot>>
mediaVars == <<sessionUrls, blobs, element, loads, plays>>
storeVars == <<storage, ready, mediaDb>>
vars == <<call, alarmVars, cursorVars, mediaVars, storeVars, userInteracted, isiOS, lastOp,
          ticked>>

(***************************************************************************)
(* SpecTrigger: calculateNextTrigger as a function of the time string and  *)
(* of the clock.                                                           *)
(***************************************************************************)
ClockHours == {0, 7, 12, 23}
ClockMinutes == {0, 5, 30, 59}

\* the values <input type="time"> can hold: a clock time
ValidTimes == {TimeString(h, m) : h \in ClockHours, m \in ClockMinutes}

\* other strings a stored alarm record can hold
OtherTimes == {<<>>, <<"7", ":", "0", "0">>, <<"0", "7", "-", "0", "0">>,
               <<"0", "7", ":", "0", "0", ":", "0", "0">>, <<"a", "b", ":", "c", "d">>,
               <<"2", "5", ":", "6", "1">>}

Instants ==
  {d * TicksPerDay + h * TicksPerHour + m * TicksPerMinute + s :
     d \in 0..MaxDay, h \in ClockHours, m \in ClockMinutes, s \in 0..(TicksPerMinute - 1)}

DefaultAlarm ==
  [time |-> TimeString(7, 0), playlistId |-> Null, memo |-> "", isOn |-> FALSE,
   nextTrigger |-> Undefined]

IdleElement == [src |-> NoUrl, currentTime |-> 0, state |-> "empty"]

IdleCursor ==
  /\ playbackPlaylistId = Null
  /\ currentTrackIndex = 0
  /\ currentTrackUrl = NoUrl
  /\ isPlaying = FALSE
  /\ needsManualPlay = FALSE
  /\ missingObjectUrl = FALSE
  /\ playbackMessage = "idle"
  /\ progressSnapshot = [remaining |-> 0, percent |-> 0]

NoCall == [fn |-> "none", time |-> <<>>, nowA |-> 0, nowB |-> 0, ret |-> NoDate]

(***************************************************************************)
(* Persisted records.  A record of localStorage is absent, a text that     *)
(* JSON.parse rejects, a JSON text of a value that is not of the record's  *)
(* type, or the JSON text of a value.                                      *)
(***************************************************************************)
Missing == [kind |-> "missing", value |-> <<>>]
Corrupt == [kind |-> "corrupt", value |-> <<>>]
WrongShape == [kind |-> "wrongShape", value |-> <<>>]

\* JSON.stringify(value)
stringify(value) == [kind |-> "json", value |-> value]

\* JSON.stringify(alarm): a key whose value is undefined is left out
stringifyAlarm(a) ==
  stringify(IF a.nextTrigger = Undefined
            THEN [f \in DOMAIN a \ {"nextTrigger"} |-> a[f]]
            ELSE a)

\* safeRead(key) ?? fallback: getItem, JSON.parse, null when absent or rejected
safeRead(raw, fallback) == IF raw.kind \in {"missing", "corrupt"} THEN fallback ELSE raw.value

\* what the write-back effects store for a state
Stored(files, pls, a) ==
  [media |-> stringify(files), playlists |-> stringify(pls), alarm |-> stringifyAlarm(a)]

InitTrigger ==
  /\ call \in {[fn |-> "pending", time |-> t, nowA |-> n, nowB |-> n + d, ret |-> NoDate] :
                 t \in ValidTimes \cup OtherTimes, n \in Instants, d \in {0, 1}}
  /\ now = call.nowA
  /\ alarm = DefaultAlarm
  /\ playlists = <<>>
  /\ mediaFiles = <<>>
  /\ editingPlaylist = Null
  /\ timers = {}
  /\ alarmTimeoutRef = 0
  /\ IdleCursor
  /\ userInteracted = FALSE
  /\ isiOS = FALSE
  /\ sessionUrls = [id \in MediaIds |-> NoUrl]
  /\ blobs = {}
  /\ element = IdleElement
  /\ loads = <<>>
  /\ plays = <<>>
  /\ lastOp = [op |-> "init", wasOn |-> FALSE]
  /\ storage = [media |-> Missing, playlists |-> Missing, alarm |-> Missing]
  /\ ready = FALSE
  /\ mediaDb = "open"
  /\ ticked = FALSE

\* the call returns
CallCalculateNextTrigger ==
  /\ call.fn = "pending"
  /\ call' = [call EXCEPT !.fn = "calculateNextTrigger",
                          !.ret = calculateNextTrigger(call.time, call.nowA, call.nowB)]
  /\ lastOp' = [op |-> "calculateNextTrigger", wasOn |-> alarm.isOn]
  /\ UNCHANGED <<alarmVars, cursorVars, mediaVars, storeVars, userInteracted, isiOS, ticked>>

NextTrigger == CallCalculateNextTrigger

SpecTrigger == InitTrigger /\ [][NextTrigger]_vars


\* HH in 00..23 and MM in 00..59
IsClockTime(time) ==
  /\ TimePatternTest(time)
  /\ SplitHour(time) < HoursPerDay
  /\ SplitMinute(time) < MinutesPerHour

TimeOfDay(time) == SplitHour(time) * TicksPerHour + SplitMinute(time) * TicksPerMinute

C2_TodayOrTomorrow ==
  (call.fn = "calculateNextTrigger" /\ IsClockTime(call.time)) =>
     LET today == (call.nowA \div TicksPerDay) * TicksPerDay + TimeOfDay(call.time)
     IN /\ call.ret % TicksPerDay = TimeOfDay(call.time)
        /\ today > call.nowA => call.ret = today
        /\ today <= call.nowA => call.ret \div TicksPerDay = (call.nowA \div TicksPerDay) + 1

\* 07:00 asked at 07:05 of day 0 gives 07:00 of day 1
C2_Witness ==
  /\ call.fn = "calculateNextTrigger"
  /\ call.time = TimeString(7, 0)
  /\ call.nowA = 7 * TicksPerHour + 5 * TicksPerMinute
  /\ call.ret = TicksPerDay + 7 * TicksPerHour


(***************************************************************************)
(* The playback cursor.  A handler works on the cursor as one record and   *)
(* the step assigns the variables from it.                                 *)
(***************************************************************************)
Cursor ==
  [playbackPlaylistId |-> playbackPlaylistId, currentTrackIndex |-> currentTrackIndex,
   currentTrackUrl |-> currentTrackUrl, isPlaying |-> isPlaying,
   needsManualPlay |-> needsManualPlay, missingObjectUrl |-> missingObjectUrl,
   playbackMessage |-> playbackMessage, progressSnapshot |-> progressSnapshot,
   element |-> element]

\* currentTrack (useMemo): the id of the entry the cursor resolves to, or Null
currentTrack(pl, idx, pls, files) ==
  IF pl = Null THEN Null
  ELSE IF pl \notin DOMAIN pls THEN Null
  ELSE IF idx + 1 > Len(pls[pl]) THEN Null
  ELSE IF pls[pl][idx + 1] \notin DOMAIN files THEN Null
  ELSE pls[pl][idx + 1]

\* mediaElementRef.current.pause(); mediaElementRef.current.currentTime = 0
pauseAndRewind(el) ==
  [el EXCEPT !.currentTime = 0,
             !.state = IF el.state \in {"starting", "playing", "ended"} THEN "ready" ELSE el.state]

stopPlaybackKeepsCursor(c) ==
  [c EXCEPT !.isPlaying = FALSE, !.needsManualPlay = FALSE, !.missingObjectUrl = FALSE,
            !.element = pauseAndRewind(c.element),
            !.progressSnapshot = [remaining |-> 0, percent |-> 0]]

stopPlaybackKeepsProgress(c) ==
  [c EXCEPT !.isPlaying = FALSE, !.playbackPlaylistId = Null, !.currentTrackIndex = 0,
            !.currentTrackUrl = NoUrl, !.needsManualPlay = FALSE,
            !.missingObjectUrl = FALSE, !.element = pauseAndRewind(c.element)]

\* stopPlayback()
stopPlayback(c) ==
  [c EXCEPT !.isPlaying = FALSE, !.playbackPlaylistId = Null, !.currentTrackIndex = 0,
            !.currentTrackUrl = NoUrl, !.needsManualPlay = FALSE,
            !.missingObjectUrl = FALSE, !.element = pauseAndRewind(c.element),
            !.progressSnapshot = [remaining |-> 0, percent |-> 0]]

\* startPlayback(playlistId, fromAlarm), with the playlists of its closure
startPlayback(c, playlistId, fromAlarm, pls, ios, interacted) ==
  IF playlistId \notin DOMAIN pls \/ Len(pls[playlistId]) = 0
  THEN [c EXCEPT !.playbackMessage = "noTracks", !.playbackPlaylistId = Null,
                 !.isPlaying = FALSE]
  ELSE LET requiresManualStart == fromAlarm /\ ios /\ ~interacted
       IN [c EXCEPT !.playbackPlaylistId = playlistId, !.currentTrackIndex = 0,
                    !.isPlaying = TRUE, !.needsManualPlay = requiresManualStart,
                    !.playbackMessage = IF requiresManualStart THEN "manualStartIOS"
                                        ELSE IF fromAlarm THEN "startedByAlarm"
                                        ELSE "started"]

advanceTrackRepeats(c, pls) ==
  IF c.playbackPlaylistId = Null THEN c
  ELSE IF c.playbackPlaylistId \notin DOMAIN pls THEN stopPlayback(c)
  ELSE IF c.currentTrackIndex + 1 < Len(pls[c.playbackPlaylistId])
       THEN c
       ELSE stopPlayback([c EXCEPT !.playbackMessage = "finished"])

advanceTrackSilentFinish(c, pls) ==
  IF c.playbackPlaylistId = Null THEN c
  ELSE IF c.playbackPlaylistId \notin DOMAIN pls THEN stopPlayback(c)
  ELSE IF c.currentTrackIndex + 1 < Len(pls[c.playbackPlaylistId])
       THEN [c EXCEPT !.currentTrackIndex = c.currentTrackIndex + 1]
       ELSE stopPlayback(c)

\* advanceTrack(), with the cursor and the playlists of its closure
advanceTrack(c, pls) ==
  IF c.playbackPlaylistId = Null THEN c
  ELSE IF c.playbackPlaylistId \notin DOMAIN pls THEN stopPlayback(c)
  ELSE IF c.currentTrackIndex + 1 < Len(pls[c.playbackPlaylistId])
       THEN [c EXCEPT !.currentTrackIndex = c.currentTrackIndex + 1]
       ELSE stopPlayback([c EXCEPT !.playbackMessage = "finished"])

\* the media element follows the src attribute the render gives it
elementFor(el, url) ==
  IF url = el.src THEN el
  ELSE [src |-> url, currentTime |-> 0, state |-> IF url = NoUrl THEN "empty" ELSE "loading"]

cancelAllLeavesPending(ld) == ld

\* the cleanup of the track setup effect: cancelled = true in every setup() still waiting
cancelAll(ld) == [i \in DOMAIN ld |-> [ld[i] EXCEPT !.cancelled = TRUE]]

\* The render after a handler and the track setup effect it re-runs.  c is the
\* cursor, ld the pending loads and cache the handle cache the handler leaves; plsTouched: the handler
\* replaced the playlists array; touched: the media entries it replaced.
\* A cached handle is installed in the same step (the await of a settled
\* promise); an uncached one leaves a pending load.
Render(c, ld, cache, plsTouched, touched) ==
  LET track == currentTrack(c.playbackPlaylistId, c.currentTrackIndex, playlists', mediaFiles')
      before == currentTrack(playbackPlaylistId, currentTrackIndex, playlists, mediaFiles)
      rerun == \/ track # before
               \/ track \in touched
               \/ c.playbackPlaylistId # playbackPlaylistId
               \/ c.currentTrackIndex # currentTrackIndex
               \/ plsTouched
      cached == track # Null /\ cache[track] # NoUrl
      url == IF ~rerun THEN c.currentTrackUrl
             ELSE IF track = Null THEN NoUrl
             ELSE IF cached THEN cache[track]
             ELSE c.currentTrackUrl
      missing == IF rerun /\ (track = Null \/ cached) THEN FALSE ELSE c.missingObjectUrl
  IN /\ playbackPlaylistId' = c.playbackPlaylistId
     /\ currentTrackIndex' = c.currentTrackIndex
     /\ isPlaying' = c.isPlaying
     /\ needsManualPlay' = c.needsManualPlay
     /\ playbackMessage' = c.playbackMessage
     /\ progressSnapshot' = c.progressSnapshot
     /\ currentTrackUrl' = url
     /\ missingObjectUrl' = missing
     /\ element' = elementFor(c.element, url)
     /\ loads' = IF ~rerun THEN ld
                 ELSE IF track # Null /\ ~cached
                      THEN Append(cancelAll(ld), [fileId |-> track, cancelled |-> FALSE])
                      ELSE cancelAll(ld)
     /\ Len(loads') <= MaxLoads

(***************************************************************************)
(* The alarm timer.                                                        *)
(***************************************************************************)
detachAlarmTimeoutLeavesTimer(tm) ==
  IF tm.ref # 0 THEN [timers |-> tm.timers, ref |-> 0] ELSE tm

\* detachAlarmTimeout(): clearTimeout(alarmTimeoutRef.current); alarmTimeoutRef.current = null
detachAlarmTimeout(tm) ==
  IF tm.ref # 0
  THEN [timers |-> {t \in tm.timers : t.id # tm.ref}, ref |-> 0]
  ELSE tm

FreeTimerIds(ts) == {i \in 1..MaxTimers : \A t \in ts : t.id # i}

alarmSchedulingEffectFresh(tm, a, n) ==
  LET cleared == detachAlarmTimeout(detachAlarmTimeout(tm))
  IN IF ~a.isOn \/ a.nextTrigger = Undefined \/ a.playlistId = Null THEN cleared
     ELSE LET target == n + TicksPerDay
              delay == IF target - n > 0 THEN target - n ELSE 0
              id == CHOOSE i \in FreeTimerIds(cleared.timers) :
                      \A j \in FreeTimerIds(cleared.timers) : i <= j
          IN [timers |-> cleared.timers \cup
                           {[id |-> id, fireAt |-> n + delay, target |-> target,
                             playlistId |-> a.playlistId, time |-> a.time]},
              ref |-> id]

alarmSchedulingEffectKeepsTimer(tm, a, n) ==
  LET cleared == detachAlarmTimeout(detachAlarmTimeout(tm))
  IN IF ~a.isOn \/ a.nextTrigger = Undefined \/ a.playlistId = Null THEN tm
     ELSE LET target == parseDate(a.nextTrigger)
              delay == IF target - n > 0 THEN target - n ELSE 0
              id == CHOOSE i \in FreeTimerIds(cleared.timers) :
                      \A j \in FreeTimerIds(cleared.timers) : i <= j
          IN [timers |-> cleared.timers \cup
                           {[id |-> id, fireAt |-> n + delay, target |-> target,
                             playlistId |-> a.playlistId, time |-> a.time]},
              ref |-> id]

\* the alarm scheduling effect: its cleanup, then its body at instant n
alarmSchedulingEffect(tm, a, n) ==
  LET cleared == detachAlarmTimeout(detachAlarmTimeout(tm))
  IN IF ~a.isOn \/ a.nextTrigger = Undefined \/ a.playlistId = Null THEN cleared
     ELSE LET target == parseDate(a.nextTrigger)
              delay == IF target - n > 0 THEN target - n ELSE 0
              id == CHOOSE i \in FreeTimerIds(cleared.timers) :
                      \A j \in FreeTimerIds(cleared.timers) : i <= j
          IN [timers |-> cleared.timers \cup
                           {[id |-> id, fireAt |-> n + delay, target |-> target,
                             playlistId |-> a.playlistId, time |-> a.time]},
              ref |-> id]

\* The alarm scheduling effect after a render: it re-runs when the alarm object,
\* or startPlayback (playlists, mediaFiles, userInteracted), was replaced.
\* tm: the timers and the ref the handler leaves.
AlarmEffect(rerun, tm) ==
  LET armed == alarm'.isOn /\ alarm'.nextTrigger # Undefined /\ alarm'.playlistId # Null
      after == IF rerun THEN alarmSchedulingEffect(tm, alarm', now) ELSE tm
  IN /\ (rerun /\ armed) => FreeTimerIds(detachAlarmTimeout(tm).timers) # {}
     /\ timers' = after.timers
     /\ alarmTimeoutRef' = after.ref

Timers == [timers |-> timers, ref |-> alarmTimeoutRef]


NoDraft == [id |-> Null, fileIds |-> <<>>]

\* fileIds.filter((fileId) => fileId !== id)
RECURSIVE filterOut(_, _)
filterOut(ids, id) ==
  IF ids = <<>> THEN <<>>
  ELSE IF Head(ids) = id THEN filterOut(Tail(ids), id)
  ELSE <<Head(ids)>> \o filterOut(Tail(ids), id)

persistenceEffectsUngated(st, wasReady, isReady, files, pls, a, filesSet, plsSet, alarmSet) ==
  [media |-> IF filesSet \/ ~wasReady THEN stringify(files) ELSE st.media,
   playlists |-> IF plsSet \/ ~wasReady THEN stringify(pls) ELSE st.playlists,
   alarm |-> IF alarmSet \/ ~wasReady THEN stringifyAlarm(a) ELSE st.alarm]

\* the three write-back effects after a render: each returns at once while ready
\* is false, and stores its record when the record or ready changed.  wasReady:
\* ready at the previous render (false at the first run of the effects)
persistenceEffects(st, wasReady, isReady, files, pls, a, filesSet, plsSet, alarmSet) ==
  IF ~isReady THEN st
  ELSE [media |-> IF filesSet \/ ~wasReady THEN stringify(files) ELSE st.media,
        playlists |-> IF plsSet \/ ~wasReady THEN stringify(pls) ELSE st.playlists,
        alarm |-> IF alarmSet \/ ~wasReady THEN stringifyAlarm(a) ELSE st.alarm]

\* the end of a step: the state updates the handler queued are committed, the
\* component renders and the effects whose dependencies changed re-run.
\* user: the step is a pointer or key event (the first one sets userInteracted).
\* The write-back effects store a record when it was replaced, once ready.
Commit(op, a, pls, files, draft, c, ld, cache, tm, alarmSet, plsSet, filesSet, touched, user) ==
  /\ lastOp' = [op |-> op, wasOn |-> alarm.isOn]
  /\ alarm' = a
  /\ playlists' = pls
  /\ mediaFiles' = files
  /\ editingPlaylist' = draft
  /\ userInteracted' = (userInteracted \/ user)
  /\ ticked' = IF op = "progressTick" THEN TRUE
               ELSE IF op \in {"startPlayback", "alarmFire"}
                       \/ c.playbackPlaylistId # playbackPlaylistId
                       \/ ~c.isPlaying
                    THEN FALSE
                    ELSE ticked
  /\ AlarmEffect(alarmSet \/ plsSet \/ filesSet \/ (user /\ ~userInteracted), tm)
  /\ sessionUrls' = cache
  /\ ready' = (ready \/ op = "startupLoad")
  /\ mediaDb' = mediaDb
  /\ storage' = persistenceEffects(storage, ready, ready', files, pls, a,
                                   filesSet, plsSet, alarmSet)
  /\ Render(c, ld, cache, plsSet, touched)

handleAlarmToggleKeepsTrigger(a, pls, c, tm, n) ==
  IF a.playlistId = Null
  THEN [alarm |-> a, c |-> [c EXCEPT !.playbackMessage = "selectPlaylist"], tm |-> tm,
        set |-> FALSE]
  ELSE IF a.playlistId \notin DOMAIN pls \/ Len(pls[a.playlistId]) = 0
  THEN [alarm |-> a, c |-> [c EXCEPT !.playbackMessage = "selectFilledPlaylist"],
        tm |-> tm, set |-> FALSE]
  ELSE IF ~a.isOn
  THEN [alarm |-> [a EXCEPT !.isOn = TRUE,
                            !.nextTrigger = nextToISOString(calculateNextTrigger(a.time, n, n))],
        c |-> c, tm |-> tm, set |-> TRUE]
  ELSE [alarm |-> [a EXCEPT !.isOn = FALSE],
        c |-> c, tm |-> detachAlarmTimeout(tm), set |-> TRUE]

\* handleAlarmToggle()
handleAlarmToggle(a, pls, c, tm, n) ==
  IF a.playlistId = Null
  THEN [alarm |-> a, c |-> [c EXCEPT !.playbackMessage = "selectPlaylist"], tm |-> tm,
        set |-> FALSE]
  ELSE IF a.playlistId \notin DOMAIN pls \/ Len(pls[a.playlistId]) = 0
  THEN [alarm |-> a, c |-> [c EXCEPT !.playbackMessage = "selectFilledPlaylist"],
        tm |-> tm, set |-> FALSE]
  ELSE IF ~a.isOn
  THEN [alarm |-> [a EXCEPT !.isOn = TRUE,
                            !.nextTrigger = nextToISOString(calculateNextTrigger(a.time, n, n))],
        c |-> c, tm |-> tm, set |-> TRUE]
  ELSE [alarm |-> [a EXCEPT !.isOn = FALSE, !.nextTrigger = Undefined],
        c |-> c, tm |-> detachAlarmTimeout(tm), set |-> TRUE]

\* the button of the alarm card
HandleAlarmToggle ==
  LET r == handleAlarmToggle(alarm, playlists, Cursor, Timers, now)
  IN /\ Commit("handleAlarmToggle", r.alarm, playlists, mediaFiles, editingPlaylist,
               r.c, loads, sessionUrls, r.tm, r.set, FALSE, FALSE, {}, TRUE)
     /\ UNCHANGED <<call, now, isiOS, blobs, plays>>

\* the values the time input of the alarm card can take: a clock time, or empty
AlarmTimes == {TimeString(7, 0), TimeString(23, 59)}

alarmTimeOnChangeKeepsTrigger(a, value, n) == [a EXCEPT !.time = value]

\* onChange of the time input
alarmTimeOnChange(a, value, n) ==
  [a EXCEPT !.time = value,
            !.nextTrigger = IF a.isOn
                            THEN nextToISOString(calculateNextTrigger(value, n, n))
                            ELSE a.nextTrigger]

AlarmTimeChange(value) ==
  /\ value # alarm.time
  /\ Commit("alarmTimeChange", alarmTimeOnChange(alarm, value, now), playlists, mediaFiles,
            editingPlaylist, Cursor, loads, sessionUrls, Timers, TRUE, FALSE, FALSE, {}, TRUE)
  /\ UNCHANGED <<call, now, isiOS, blobs, plays>>

\* onChange of the playlist select: an option of the list, or the empty option
alarmPlaylistOnChange(a, value) == [a EXCEPT !.playlistId = value]

AlarmPlaylistChange(value) ==
  /\ value \in DOMAIN playlists \cup {Null}
  /\ value # alarm.playlistId
  /\ Commit("alarmPlaylistChange", alarmPlaylistOnChange(alarm, value), playlists,
            mediaFiles, editingPlaylist, Cursor, loads, sessionUrls, Timers, TRUE, FALSE, FALSE, {}, TRUE)
  /\ UNCHANGED <<call, now, isiOS, blobs, plays>>

Memos == {"", "m"}

\* onChange of the memo textarea
alarmMemoOnChange(a, value) == [a EXCEPT !.memo = value]

AlarmMemoChange(value) ==
  /\ value # alarm.memo
  /\ Commit("alarmMemoChange", alarmMemoOnChange(alarm, value), playlists, mediaFiles,
            editingPlaylist, Cursor, loads, sessionUrls, Timers, TRUE, FALSE, FALSE, {}, TRUE)
  /\ UNCHANGED <<call, now, isiOS, blobs, plays>>

AlarmFireKeepsTrigger(t) ==
  /\ t \in timers
  /\ now >= t.fireAt
  /\ Commit("alarmFire", alarm, playlists, mediaFiles, editingPlaylist,
            startPlayback(Cursor, t.playlistId, TRUE, playlists, isiOS, userInteracted),
            loads, sessionUrls, [timers |-> timers \ {t}, ref |-> alarmTimeoutRef],
            FALSE, FALSE, FALSE, {}, FALSE)
  /\ UNCHANGED <<call, now, isiOS, blobs, plays>>

\* the callback of the alarm timer t runs: the browser has dropped the timer
AlarmFire(t) ==
  /\ t \in timers
  /\ now >= t.fireAt
  /\ Commit("alarmFire",
            [alarm EXCEPT !.nextTrigger =
                            nextToISOString(calculateNextTrigger(t.time, now, now))],
            playlists, mediaFiles, editingPlaylist,
            startPlayback(Cursor, t.playlistId, TRUE, playlists, isiOS, userInteracted),
            loads, sessionUrls, [timers |-> timers \ {t}, ref |-> alarmTimeoutRef],
            TRUE, FALSE, FALSE, {}, FALSE)
  /\ UNCHANGED <<call, now, isiOS, blobs, plays>>

\* time passes
ClockAdvance(n) ==
  /\ n > now
  /\ now' = n
  /\ lastOp' = [op |-> "clockAdvance", wasOn |-> alarm.isOn]
  /\ UNCHANGED <<call, storeVars, alarm, playlists, mediaFiles, editingPlaylist, timers,
                 alarmTimeoutRef, cursorVars, mediaVars, userInteracted, isiOS, ticked>>


(***************************************************************************)
(* Media and playlist handlers.                                            *)
(***************************************************************************)
handleRemoveMediaKeepsAlarm(id, a, pls, files, draft) ==
  LET updated == [p \in DOMAIN pls |-> filterOut(pls[p], id)]
  IN [playlists |-> updated,
      alarm |-> a,
      alarmSet |-> FALSE,
      mediaFiles |-> [f \in DOMAIN files \ {id} |-> files[f]],
      draft |-> IF draft.id = Null THEN draft
                ELSE [draft EXCEPT !.fileIds = filterOut(draft.fileIds, id)]]

\* handleRemoveMedia(id), confirmed: the state updates it queues
handleRemoveMedia(id, a, pls, files, draft) ==
  LET updated == [p \in DOMAIN pls |-> filterOut(pls[p], id)]
      alarmPlaylistId == a.playlistId
      found == alarmPlaylistId \in DOMAIN updated
      disarm == alarmPlaylistId # Null /\ (~found \/ Len(updated[alarmPlaylistId]) = 0)
  IN [playlists |-> updated,
      alarm |-> IF disarm
                THEN [a EXCEPT !.playlistId = IF found THEN a.playlistId ELSE Null,
                               !.isOn = FALSE, !.nextTrigger = Undefined]
                ELSE a,
      alarmSet |-> disarm,
      mediaFiles |-> [f \in DOMAIN files \ {id} |-> files[f]],
      draft |-> IF draft.id = Null THEN draft
                ELSE [draft EXCEPT !.fileIds = filterOut(draft.fileIds, id)]]

\* removeBlob(id): nothing without a database; ok: the delete transaction completes
removeBlob(bl, db, id, ok) == IF db = "open" /\ ok THEN bl \ {id} ELSE bl

\* the delete button of a media entry, confirmed; the cached handle is revoked
\* and dropped, then removeBlob is awaited
HandleRemoveMediaOutcome(id, ok) ==
  /\ id \in DOMAIN mediaFiles
  /\ LET r == handleRemoveMedia(id, alarm, playlists, mediaFiles, editingPlaylist)
     IN /\ blobs' = removeBlob(blobs, mediaDb, id, ok)
        /\ Commit("handleRemoveMedia", r.alarm, r.playlists, r.mediaFiles, r.draft,
                  Cursor, loads, [sessionUrls EXCEPT ![id] = NoUrl], Timers, r.alarmSet, TRUE, TRUE, {}, TRUE)
  /\ UNCHANGED <<call, now, isiOS, plays>>

\* the same, no transaction failing: the handler runs to its end
HandleRemoveMedia(id) == HandleRemoveMediaOutcome(id, TRUE)

handlePlaylistDeleteKeepsAlarm(id, a, pls, draft) ==
  [playlists |-> [p \in DOMAIN pls \ {id} |-> pls[p]],
   alarm |-> a,
   alarmSet |-> FALSE,
   draft |-> IF draft.id = id THEN NoDraft ELSE draft]

\* handlePlaylistDelete(id), confirmed
handlePlaylistDelete(id, a, pls, draft) ==
  [playlists |-> [p \in DOMAIN pls \ {id} |-> pls[p]],
   alarm |-> IF a.playlistId = id
             THEN [a EXCEPT !.playlistId = Null, !.isOn = FALSE, !.nextTrigger = Undefined]
             ELSE a,
   alarmSet |-> a.playlistId = id,
   draft |-> IF draft.id = id THEN NoDraft ELSE draft]

\* the delete button of the playlist editor (the playlist being edited)
HandlePlaylistDelete ==
  /\ editingPlaylist.id # Null
  /\ LET r == handlePlaylistDelete(editingPlaylist.id, alarm, playlists, editingPlaylist)
     IN Commit("handlePlaylistDelete", r.alarm, r.playlists, mediaFiles, r.draft,
               Cursor, loads, sessionUrls, Timers, r.alarmSet, TRUE, FALSE, {}, TRUE)
  /\ UNCHANGED <<call, now, isiOS, blobs, plays>>

\* handlePlaylistSave(): the draft replaces the playlist of its id, or is added
handlePlaylistSave(pls, draft) ==
  [p \in DOMAIN pls \cup {draft.id} |-> IF p = draft.id THEN draft.fileIds ELSE pls[p]]

\* the save button: disabled while the draft has no track
HandlePlaylistSave ==
  /\ editingPlaylist.id # Null
  /\ Len(editingPlaylist.fileIds) > 0
  /\ Commit("handlePlaylistSave", alarm, handlePlaylistSave(playlists, editingPlaylist),
            mediaFiles, editingPlaylist, Cursor, loads, sessionUrls, Timers, FALSE, TRUE, FALSE, {}, TRUE)
  /\ UNCHANGED <<call, now, isiOS, blobs, plays>>

\* handlePlaylistSelect(id): a copy of the playlist becomes the draft
HandlePlaylistSelect(id) ==
  /\ id \in DOMAIN playlists
  /\ editingPlaylist # [id |-> id, fileIds |-> playlists[id]]
  /\ Commit("handlePlaylistSelect", alarm, playlists, mediaFiles,
            [id |-> id, fileIds |-> playlists[id]],
            Cursor, loads, sessionUrls, Timers, FALSE, FALSE, FALSE, {}, TRUE)
  /\ UNCHANGED <<call, now, isiOS, blobs, plays>>

\* handleCreatePlaylist(): an empty draft under a fresh id
HandleCreatePlaylist(id) ==
  /\ id \in PlaylistIds \ (DOMAIN playlists \cup {editingPlaylist.id})
  /\ Commit("handleCreatePlaylist", alarm, playlists, mediaFiles,
            [id |-> id, fileIds |-> <<>>],
            Cursor, loads, sessionUrls, Timers, FALSE, FALSE, FALSE, {}, TRUE)
  /\ UNCHANGED <<call, now, isiOS, blobs, plays>>

\* the add-file select of the editor: fileIds.concat(value)
DraftAddTrack(id) ==
  /\ editingPlaylist.id # Null
  /\ id \in DOMAIN mediaFiles
  /\ Len(editingPlaylist.fileIds) < MaxTracks
  /\ Commit("draftAddTrack", alarm, playlists, mediaFiles,
            [editingPlaylist EXCEPT !.fileIds = Append(@, id)],
            Cursor, loads, sessionUrls, Timers, FALSE, FALSE, FALSE, {}, TRUE)
  /\ UNCHANGED <<call, now, isiOS, blobs, plays>>

\* the remove button of a draft row: fileIds.filter((fileId) => fileId !== id)
DraftRemoveTrack(id) ==
  /\ editingPlaylist.id # Null
  /\ \E i \in DOMAIN editingPlaylist.fileIds : editingPlaylist.fileIds[i] = id
  /\ Commit("draftRemoveTrack", alarm, playlists, mediaFiles,
            [editingPlaylist EXCEPT !.fileIds = filterOut(@, id)],
            Cursor, loads, sessionUrls, Timers, FALSE, FALSE, FALSE, {}, TRUE)
  /\ UNCHANGED <<call, now, isiOS, blobs, plays>>


(***************************************************************************)
(* SpecAlarm: the alarm scheduler under alarm edits, toggles, fires,       *)
(* playlist saves and deletes, media removals and the passing of time.     *)
(***************************************************************************)
AlarmMediaIds == {"a", "b"}

\* the instants the clock is observed at: around the alarm times of each day
AlarmInstants ==
  {d * TicksPerDay + TimeOfDay(t) + k :
     d \in 0..MaxDay, t \in AlarmTimes, k \in {0, 5 * TicksPerMinute}}

KnownEntry(id) == [durationSec |-> MediaLength[id], hasBlob |-> TRUE]

InitAlarm ==
  /\ call = NoCall
  /\ now = 0
  /\ alarm = DefaultAlarm
  /\ playlists = [p \in PlaylistIds |-> IF p = "p1" THEN <<"a">> ELSE <<"a", "b">>]
  /\ mediaFiles = [id \in AlarmMediaIds |-> KnownEntry(id)]
  /\ editingPlaylist = NoDraft
  /\ timers = {}
  /\ alarmTimeoutRef = 0
  /\ IdleCursor
  /\ userInteracted = FALSE
  /\ isiOS = FALSE
  /\ sessionUrls = [id \in MediaIds |-> IF id \in AlarmMediaIds THEN <<id, 1>> ELSE NoUrl]
  /\ blobs = AlarmMediaIds
  /\ element = IdleElement
  /\ loads = <<>>
  /\ plays = <<>>
  /\ lastOp = [op |-> "init", wasOn |-> FALSE]
  /\ storage = Stored(mediaFiles, playlists, alarm)
  /\ ready = TRUE
  /\ mediaDb = "open"
  /\ ticked = FALSE

NextAlarm ==
  \/ HandleAlarmToggle
  \/ \E value \in AlarmTimes \cup {<<>>} : AlarmTimeChange(value)
  \/ \E value \in PlaylistIds \cup {Null} : AlarmPlaylistChange(value)
  \/ \E value \in Memos : AlarmMemoChange(value)
  \/ \E t \in timers : AlarmFire(t)
  \/ \E n \in AlarmInstants : ClockAdvance(n)
  \/ \E id \in AlarmMediaIds : HandleRemoveMedia(id)
  \/ HandlePlaylistDelete
  \/ HandlePlaylistSave
  \/ \E id \in PlaylistIds : HandlePlaylistSelect(id)

SpecAlarm == InitAlarm /\ [][NextAlarm]_vars


AlarmArmed(a) == a.isOn /\ a.nextTrigger # Undefined /\ a.playlistId # Null

\* C3: in every reachable state, alarm.isOn implies that alarm.playlistId names an
\* existing playlist with at least one track and that alarm.nextTrigger is set.
C3_ArmedImpliesPlayable ==
  alarm.isOn =>
    /\ alarm.playlistId \in DOMAIN playlists
    /\ Len(playlists[alarm.playlistId]) >= 1
    /\ alarm.nextTrigger # Undefined

\* C4: when handleRemoveMedia leaves the playlist of an armed alarm without tracks,
\* or handlePlaylistDelete deletes it, the same step disarms the alarm (isOn false,
\* nextTrigger cleared) and leaves no pending timer to fire for the old trigger.
C4_RemovalDisarms ==
  [][(/\ alarm.isOn
      /\ alarm.playlistId # Null
      /\ \/ /\ lastOp'.op = "handleRemoveMedia"
            /\ alarm.playlistId \in DOMAIN playlists'
            /\ Len(playlists'[alarm.playlistId]) = 0
         \/ /\ lastOp'.op = "handlePlaylistDelete"
            /\ alarm.playlistId \in DOMAIN playlists
            /\ alarm.playlistId \notin DOMAIN playlists')
     => (/\ ~alarm'.isOn
         /\ alarm'.nextTrigger = Undefined
         /\ timers' = {})]_vars

\* the last track of the playlist of an armed alarm was removed
C4_Witness ==
  /\ lastOp = [op |-> "handleRemoveMedia", wasOn |-> TRUE]
  /\ alarm.playlistId \in DOMAIN playlists
  /\ playlists[alarm.playlistId] = <<>>
  /\ ~alarm.isOn
  /\ timers = {}

\* C5: at most one alarm timer is pending in every reachable state.
C5_AtMostOneTimer ==
  /\ Cardinality(timers) <= 1
  /\ \A t \in timers : t.id = alarmTimeoutRef

\* an armed alarm was edited: the effect ran again over a pending timer
C5_Witness ==
  /\ lastOp.op \in {"alarmTimeChange", "alarmMemoChange"}
  /\ lastOp.wasOn
  /\ AlarmArmed(alarm)
  /\ Cardinality(timers) = 1

\* C6: when the scheduling effect re-runs for an armed alarm whose nextTrigger is
\* still in the future (after a memo edit or a playlists change), nextTrigger is
\* unchanged and exactly one timer is pending, for that same instant.
C6_RearmIdempotent ==
  [][(/\ lastOp'.op \in {"alarmMemoChange", "handlePlaylistSave"}
      /\ AlarmArmed(alarm)
      /\ parseDate(alarm.nextTrigger) > now)
     => (/\ alarm'.nextTrigger = alarm.nextTrigger
         /\ Cardinality(timers') = 1
         /\ \A t \in timers' : t.fireAt = parseDate(alarm.nextTrigger))]_vars

\* the memo of an armed alarm was edited before its trigger
C6_Witness ==
  /\ lastOp = [op |-> "alarmMemoChange", wasOn |-> TRUE]
  /\ AlarmArmed(alarm)
  /\ parseDate(alarm.nextTrigger) > now
  /\ \E t \in timers : t.fireAt = parseDate(alarm.nextTrigger)


(***************************************************************************)
(* Track resolver, media element and progress reporter.                    *)
(***************************************************************************)
\* seconds the media advances in one step of the model while it plays
PlayStep == 5

\* remove the i-th element of a sequence
RemoveAt(q, i) == [j \in 1..(Len(q) - 1) |-> IF j < i THEN q[j] ELSE q[j + 1]]

\* URL.createObjectURL(blob): a URL not handed out before for this id
createObjectURL(cache, id) ==
  <<id, IF cache[id] = NoUrl THEN 1 ELSE cache[id][2] + 1>>

\* attemptPlay(), with isiOS and userInteracted of its closure; ps: the pending
\* play() promises.  element.play() on a loaded element starts it; on an element
\* still loading it starts once the element can play.
attemptPlay(c, ps, ios, interacted) ==
  IF ios /\ ~interacted
  THEN [c |-> [c EXCEPT !.needsManualPlay = TRUE, !.playbackMessage = "tapToStart"],
        plays |-> ps]
  ELSE [c |-> [c EXCEPT !.element.state =
                          IF c.element.state \in {"ready", "ended"} THEN "starting"
                          ELSE c.element.state,
                        !.element.currentTime =
                          IF c.element.state = "ended" THEN 0 ELSE c.element.currentTime],
        plays |-> Append(ps, [src |-> c.element.src])]

\* after `await element.play()`: setNeedsManualPlay(false), "再生中"
playResolved(c) ==
  [c EXCEPT !.needsManualPlay = FALSE, !.playbackMessage = "playing",
            !.element.state = "playing"]

playRejectedSilently(c, last) ==
  [c EXCEPT !.element.state = IF c.element.state = "starting" /\ last THEN "ready"
                              ELSE c.element.state]

\* the catch of attemptPlay(): setNeedsManualPlay(true), "自動再生できません…"
playRejected(c, last) ==
  [c EXCEPT !.needsManualPlay = TRUE, !.playbackMessage = "autoplayBlocked",
            !.element.state = IF c.element.state = "starting" /\ last THEN "ready"
                              ELSE c.element.state]

setupSettledIgnoresCancel(c, pls, cancelled, url) ==
  IF url = NoUrl THEN advanceTrack([c EXCEPT !.missingObjectUrl = TRUE], pls)
  ELSE [c EXCEPT !.missingObjectUrl = FALSE, !.currentTrackUrl = url]

\* setup() after `await loadTrackUrl(currentTrack.id)`; url is NoUrl when the
\* blob was not found
setupSettled(c, pls, cancelled, url) ==
  IF cancelled THEN c
  ELSE IF url = NoUrl THEN advanceTrack([c EXCEPT !.missingObjectUrl = TRUE], pls)
  ELSE [c EXCEPT !.missingObjectUrl = FALSE, !.currentTrackUrl = url]

\* readBlob(id) resolves: the blob is found, or null (no blob, or no database)
readBlob(bl, db, id) == db = "open" /\ id \in bl

LoadSettleCachesNotFound(i) ==
  /\ i \in DOMAIN loads
  /\ LET load == loads[i]
         found == readBlob(blobs, mediaDb, load.fileId)
         url == IF found THEN createObjectURL(sessionUrls, load.fileId) ELSE NoUrl
         cache == [sessionUrls EXCEPT ![load.fileId] = createObjectURL(sessionUrls, load.fileId)]
     IN Commit("loadSettle", alarm, playlists, mediaFiles, editingPlaylist,
               setupSettled(Cursor, playlists, load.cancelled, url),
               RemoveAt(loads, i), cache, Timers, FALSE, FALSE, FALSE, {}, FALSE)
  /\ UNCHANGED <<call, now, isiOS, blobs, plays>>

\* readBlob settles for the pending load i: loadTrackUrl materializes and caches
\* the handle, then setup() goes on
LoadSettle(i) ==
  /\ i \in DOMAIN loads
  /\ LET load == loads[i]
         found == readBlob(blobs, mediaDb, load.fileId)
         url == IF found THEN createObjectURL(sessionUrls, load.fileId) ELSE NoUrl
         cache == IF found THEN [sessionUrls EXCEPT ![load.fileId] = url] ELSE sessionUrls
     IN Commit("loadSettle", alarm, playlists, mediaFiles, editingPlaylist,
               setupSettled(Cursor, playlists, load.cancelled, url),
               RemoveAt(loads, i), cache, Timers, FALSE, FALSE, FALSE, {}, FALSE)
  /\ UNCHANGED <<call, now, isiOS, blobs, plays>>

\* the element has loaded enough of its src: onCanPlay calls attemptPlay()
CanPlay ==
  /\ element.state = "loading"
  /\ LET requested == \E j \in DOMAIN plays : plays[j].src = element.src
         loaded == [Cursor EXCEPT !.element.state =
                                   IF requested THEN "starting" ELSE "ready"]
         r == attemptPlay(loaded, plays, isiOS, userInteracted)
     IN /\ plays' = r.plays
        /\ Len(plays') <= MaxLoads
        /\ Commit("canPlay", alarm, playlists, mediaFiles, editingPlaylist, r.c, loads,
                  sessionUrls, Timers, FALSE, FALSE, FALSE, {}, FALSE)
  /\ UNCHANGED <<call, now, isiOS, blobs>>

\* a play() promise resolves: the element it was called on is playing
PlayResolve(i) ==
  /\ i \in DOMAIN plays
  /\ plays[i].src = element.src
  /\ element.state \in {"starting", "playing"}
  /\ plays' = RemoveAt(plays, i)
  /\ Commit("playResolve", alarm, playlists, mediaFiles, editingPlaylist,
            playResolved(Cursor), loads, sessionUrls, Timers,
            FALSE, FALSE, FALSE, {}, FALSE)
  /\ UNCHANGED <<call, now, isiOS, blobs>>

\* the media plays on
MediaProgress ==
  /\ element.state = "playing"
  /\ element.currentTime < MediaLength[element.src[1]]
  /\ element' = [element EXCEPT !.currentTime =
                   IF element.currentTime + PlayStep < MediaLength[element.src[1]]
                   THEN element.currentTime + PlayStep
                   ELSE MediaLength[element.src[1]]]
  /\ lastOp' = [op |-> "mediaProgress", wasOn |-> alarm.isOn]
  /\ UNCHANGED <<call, alarmVars, cursorVars, storeVars, sessionUrls, blobs, loads, plays,
                 userInteracted, isiOS, ticked>>

\* the media reaches its end: onEnded calls advanceTrack()
Ended ==
  /\ element.state = "playing"
  /\ element.currentTime = MediaLength[element.src[1]]
  /\ Commit("ended", alarm, playlists, mediaFiles, editingPlaylist,
            advanceTrack([Cursor EXCEPT !.element.state = "ended"], playlists),
            loads, sessionUrls, Timers, FALSE, FALSE, FALSE, {}, FALSE)
  /\ UNCHANGED <<call, now, isiOS, blobs, plays>>

\* file?.durationSec ?? 0
durationOf(id, files) == IF id \in DOMAIN files THEN files[id].durationSec ELSE 0

\* playlistDurationSec(playlist, files), and the same sum over a slice
RECURSIVE playlistDurationSec(_, _)
playlistDurationSec(fileIds, files) ==
  IF fileIds = <<>> THEN 0
  ELSE durationOf(Head(fileIds), files) + playlistDurationSec(Tail(fileIds), files)

\* Math.round(x / y * 100) for x >= 0, y > 0
roundPercent(x, y) == (200 * x + y) \div (2 * y)

progressPlayedOnly(fileIds, index, files, currentTime) ==
  LET total == playlistDurationSec(fileIds, files)
      played == currentTime
      pct == IF total > 0 THEN roundPercent(played, total) ELSE 0
  IN [remaining |-> IF total - played > 0 THEN total - played ELSE 0,
      percent |-> IF pct > 100 THEN 100 ELSE pct]

progressUnclamped(fileIds, index, files, currentTime) ==
  LET total == playlistDurationSec(fileIds, files)
      completed == playlistDurationSec(SubSeq(fileIds, 1, index), files)
      played == completed + currentTime
  IN [remaining |-> IF total - played > 0 THEN total - played ELSE 0,
      percent |-> IF total > 0 THEN roundPercent(played, total) ELSE 0]

\* the callback of the progress interval
progress(fileIds, index, files, currentTime) ==
  LET total == playlistDurationSec(fileIds, files)
      completed == playlistDurationSec(SubSeq(fileIds, 1, index), files)
      played == completed + currentTime
      pct == IF total > 0 THEN roundPercent(played, total) ELSE 0
  IN [remaining |-> IF total - played > 0 THEN total - played ELSE 0,
      percent |-> IF pct > 100 THEN 100 ELSE pct]

\* the progress interval fires: it exists while isPlaying, currentTrack and
\* playbackPlaylistId are set
ProgressTick ==
  /\ isPlaying
  /\ playbackPlaylistId # Null
  /\ currentTrack(playbackPlaylistId, currentTrackIndex, playlists, mediaFiles) # Null
  /\ playbackPlaylistId \in DOMAIN playlists
  /\ Commit("progressTick", alarm, playlists, mediaFiles, editingPlaylist,
            [Cursor EXCEPT !.progressSnapshot =
               progress(playlists[playbackPlaylistId], currentTrackIndex, mediaFiles,
                        element.currentTime)],
            loads, sessionUrls, Timers, FALSE, FALSE, FALSE, {}, FALSE)
  /\ UNCHANGED <<call, now, isiOS, blobs, plays>>


(***************************************************************************)
(* Playback started by the alarm and left to run: the timer is due, the    *)
(* page has just been loaded from storage.  The stored playlist p1 is      *)
(* a, b, c; storage may lack the entry or the blob of any of them, and an  *)
(* entry may carry no duration (durationSec 0).  The startup load reads    *)
(* the media list and the playlists from two storage keys without          *)
(* comparing them, and each key is written by an effect of its own by      *)
(* whichever page of the origin last changed that part.                    *)
(* The tracks are of one kind: one media element carries the playback.     *)
(***************************************************************************)
AlarmInstant == 7 * TicksPerHour

DueAlarm ==
  [time |-> TimeString(7, 0), playlistId |-> "p1", memo |-> "", isOn |-> TRUE,
   nextTrigger |-> toISOString(AlarmInstant)]

InitPlayback ==
  /\ call = NoCall
  /\ now = AlarmInstant
  /\ alarm = DueAlarm
  /\ playlists = [p \in {"p1"} |-> <<"a", "b", "c">>]
  /\ \E entries \in SUBSET MediaIds :
       \E stored \in SUBSET entries, unknown \in SUBSET entries :
         /\ mediaFiles = [id \in entries |->
                            [durationSec |-> IF id \in unknown THEN 0 ELSE MediaLength[id],
                             hasBlob |-> TRUE]]
         /\ blobs = stored
  /\ editingPlaylist = NoDraft
  /\ timers = {[id |-> 1, fireAt |-> AlarmInstant, target |-> AlarmInstant,
                playlistId |-> "p1", time |-> TimeString(7, 0)]}
  /\ alarmTimeoutRef = 1
  /\ IdleCursor
  /\ userInteracted = FALSE
  /\ isiOS = FALSE
  /\ sessionUrls = [id \in MediaIds |-> NoUrl]
  /\ element = IdleElement
  /\ loads = <<>>
  /\ plays = <<>>
  /\ lastOp = [op |-> "init", wasOn |-> FALSE]
  /\ storage = Stored(mediaFiles, playlists, alarm)
  /\ ready = TRUE
  /\ mediaDb = "open"
  /\ ticked = FALSE

NextPlayback ==
  \/ \E t \in timers : AlarmFire(t)
  \/ \E i \in 1..MaxLoads : LoadSettle(i)
  \/ CanPlay
  \/ \E i \in 1..MaxLoads : PlayResolve(i)
  \/ MediaProgress
  \/ Ended
  \/ ProgressTick

SpecPlayback == InitPlayback /\ [][NextPlayback]_vars

\* blob reads settle, a due timer fires, and the media element loads, starts,
\* plays on and ends
FairSpecPlayback ==
  /\ InitPlayback /\ [][NextPlayback]_vars
  /\ WF_vars(\E t \in timers : AlarmFire(t))
  /\ WF_vars(\E i \in 1..MaxLoads : LoadSettle(i))
  /\ WF_vars(CanPlay)
  /\ WF_vars(\E i \in 1..MaxLoads : PlayResolve(i))
  /\ WF_vars(MediaProgress)
  /\ WF_vars(Ended)

\* the states of the playback cursor
PlayingTrack ==
  /\ isPlaying
  /\ playbackPlaylistId \in DOMAIN playlists
  /\ currentTrackIndex < Len(playlists[playbackPlaylistId])
  /\ element.state = "playing"
  /\ element.src = currentTrackUrl
  /\ element.src[1] = playlists[playbackPlaylistId][currentTrackIndex + 1]

Finished == ~isPlaying /\ playbackMessage = "finished"

PhaseOf ==
  IF ~isPlaying THEN (IF playbackMessage = "finished" THEN <<"Finished">> ELSE <<"Idle">>)
  ELSE IF needsManualPlay THEN <<"AwaitingManualStart", currentTrackIndex>>
  ELSE IF PlayingTrack THEN <<"Playing", currentTrackIndex>>
  ELSE <<"Loading", currentTrackIndex>>

Resolvable(id) == id \in DOMAIN mediaFiles /\ id \in blobs

\* C7: once a playlist with at least one resolvable track has been started, the
\* cursor does not remain in Loading: it eventually plays a track, awaits a manual
\* start, or finishes.
C7_LoadingSettles ==
  (/\ PhaseOf[1] = "Loading"
   /\ \E i \in DOMAIN playlists[playbackPlaylistId] :
        Resolvable(playlists[playbackPlaylistId][i]))
    ~> (PhaseOf[1] \in {"Playing", "AwaitingManualStart", "Finished"})

\* the playlist has an entry for every track, the second has no blob
SkipScenario == DOMAIN mediaFiles = MediaIds /\ blobs = {"a", "c"}

\* C8: with a three-track playlist whose second track has no blob, the cursor
\* goes Loading(0), Playing(0), Loading(1), Loading(2), Playing(2), Finished in
\* that order: track 1 is skipped once and never played, and the index never
\* decreases between start and finish.
C8_SkipsMissingTrack ==
  [][SkipScenario =>
       /\ \/ PhaseOf' = PhaseOf
          \/ <<PhaseOf, PhaseOf'>> \in
               {<<(<<"Idle">>), (<<"Loading", 0>>)>>,
                <<(<<"Loading", 0>>), (<<"Playing", 0>>)>>,
                <<(<<"Playing", 0>>), (<<"Loading", 1>>)>>,
                <<(<<"Loading", 1>>), (<<"Loading", 2>>)>>,
                <<(<<"Loading", 2>>), (<<"Playing", 2>>)>>,
                <<(<<"Playing", 2>>), (<<"Finished">>)>>}
       /\ (isPlaying /\ isPlaying') => currentTrackIndex' >= currentTrackIndex]_vars

\* the last track has ended and the playlist is finished
C8_Witness ==
  /\ SkipScenario
  /\ Finished
  /\ lastOp.op = "ended"
  /\ sessionUrls["a"] # NoUrl /\ sessionUrls["b"] = NoUrl /\ sessionUrls["c"] # NoUrl

\* C9: from one progress tick to the next of a playback the reported remaining
\* seconds never increase, whatever the durations and skips, and they are 0 when
\* the playback has finished.
C9_RemainingNeverIncreases ==
  /\ [][(ticked /\ lastOp'.op = "progressTick") =>
          progressSnapshot'.remaining <= progressSnapshot.remaining]_vars
  /\ [](Finished => progressSnapshot.remaining = 0)

\* every track resolves and has its duration: 10, 20 and 30 seconds
FullScenario ==
  /\ blobs = MediaIds
  /\ DOMAIN mediaFiles = MediaIds
  /\ \A id \in MediaIds : mediaFiles[id].durationSec = MediaLength[id]

\* C10 as stated: with durations 10, 20, 30 played to the end, the reported
\* remaining is 60 at a first tick before the media moves and 0 at the end, and
\* the percent reported at Finished is 100.
C10_AsStated ==
  /\ [][(/\ FullScenario /\ ~ticked /\ lastOp'.op = "progressTick"
          /\ currentTrackIndex = 0 /\ element.currentTime = 0) =>
          progressSnapshot'.remaining = 60]_vars
  /\ [](FullScenario /\ Finished =>
          progressSnapshot = [remaining |-> 0, percent |-> 100])

\* C10: with durations 10, 20, 30 played to the end, every tick reports a
\* remaining of 60 less the seconds played and a percent of at most 100 (60 and 0
\* on a tick before the first track moves, 0 and 100 on a tick at the end of the
\* last track), and at Finished the progress is reset: remaining 0, percent 0.
C10_ProgressOfSixtySeconds ==
  /\ [][(FullScenario /\ lastOp'.op = "progressTick") =>
          LET played == playlistDurationSec(SubSeq(playlists["p1"], 1, currentTrackIndex),
                                            mediaFiles) + element.currentTime
          IN /\ progressSnapshot'.remaining = 60 - played
             /\ progressSnapshot'.percent = roundPercent(played, 60)
             /\ progressSnapshot'.percent <= 100]_vars
  /\ [](FullScenario /\ Finished =>
          progressSnapshot = [remaining |-> 0, percent |-> 0])

\* the playlist has finished after a tick at the end of the last track
C10_Witness ==
  /\ FullScenario
  /\ Finished
  /\ lastOp.op = "ended"
  /\ ticked = FALSE
  /\ progressSnapshot = [remaining |-> 0, percent |-> 0]

(***************************************************************************)
(* Error handling of the alarm and of the cursor.                          *)
(***************************************************************************)
\* C11: arming (handleAlarmToggle while isOn is false) with a time that does not
\* match the two-digit-colon-two-digit pattern is rejected: isOn stays false and
\* nextTrigger keeps its value.
C11_InvalidTimeRejected ==
  [][(/\ lastOp'.op = "handleAlarmToggle"
      /\ ~alarm.isOn
      /\ (alarm.time = <<>> \/ ~TimePatternTest(alarm.time))) =>
       (~alarm'.isOn /\ alarm'.nextTrigger = alarm.nextTrigger)]_vars

\* startPlayback would find no track to play in playlist p
Unplayable(p, pls) == p \notin DOMAIN pls \/ Len(pls[p]) = 0

\* C12: startPlayback for a playlist that is missing or has no track reports an
\* error message, starts no load, and leaves the playback playlist id, the track
\* index and the playing flag as they were, whatever the cursor was doing.
C12_RejectedStartKeepsCursor ==
  [][(/\ lastOp'.op = "alarmFire"
      /\ \A t \in timers : now >= t.fireAt => Unplayable(t.playlistId, playlists)) =>
       /\ playbackMessage' = "noTracks"
       /\ Len(loads') <= Len(loads)
       /\ playbackPlaylistId' = playbackPlaylistId
       /\ currentTrackIndex' = currentTrackIndex
       /\ isPlaying' = isPlaying]_vars

(***************************************************************************)
(* Startup: the load effect reads the three records, then the write-back   *)
(* effects and the alarm scheduling effect run.                            *)
(***************************************************************************)
\* { ...DEFAULT_ALARM, ...(storedAlarm ?? {}) }
mergeAlarm(stored) ==
  [f \in DOMAIN DefaultAlarm |-> IF f \in DOMAIN stored THEN stored[f] ELSE DefaultAlarm[f]]

\* hasBlob: file.hasBlob ?? false
normalizeMedia(files) ==
  [id \in DOMAIN files |->
     [durationSec |-> files[id].durationSec,
      hasBlob |-> IF "hasBlob" \in DOMAIN files[id] THEN files[id].hasBlob ELSE FALSE]]

startupLoadAllOrNothing(st) ==
  IF \E k \in DOMAIN st : st[k].kind \in {"missing", "corrupt"}
  THEN [mediaFiles |-> <<>>, playlists |-> <<>>, alarm |-> DefaultAlarm]
  ELSE [mediaFiles |-> normalizeMedia(st.media.value), playlists |-> st.playlists.value,
        alarm |-> mergeAlarm(st.alarm.value)]

\* the body of the startup load effect, for records that are read as arrays
startupLoad(st) ==
  LET storedPlaylists == safeRead(st.playlists, <<>>)
      mergedAlarm == mergeAlarm(safeRead(st.alarm, <<>>))
  IN [mediaFiles |-> normalizeMedia(safeRead(st.media, <<>>)),
      playlists |-> storedPlaylists,
      alarm |-> IF mergedAlarm.playlistId # Null /\ Unplayable(mergedAlarm.playlistId, storedPlaylists)
                THEN [mergedAlarm EXCEPT !.playlistId = Null, !.isOn = FALSE,
                                         !.nextTrigger = Undefined]
                ELSE mergedAlarm]

\* storedMedia.map / storedPlaylists.find / playlists.map on a value that is no array
LoadThrows(st) == st.media.kind = "wrongShape" \/ st.playlists.kind = "wrongShape"

\* the startup load effect
StartupLoad ==
  /\ ~ready
  /\ lastOp.op = "init"
  /\ ~LoadThrows(storage)
  /\ LET r == startupLoad(storage)
     IN Commit("startupLoad", r.alarm, r.playlists, r.mediaFiles, editingPlaylist, Cursor,
               loads, sessionUrls, Timers, TRUE, TRUE, TRUE, {}, FALSE)
  /\ UNCHANGED <<call, now, isiOS, blobs, plays>>

\* the startup load effect throws a TypeError: the other effects of the first
\* commit (the write-back effects among them, ready still false) run, then the
\* page is unmounted
StartupCrash ==
  /\ ~ready
  /\ lastOp.op = "init"
  /\ LoadThrows(storage)
  /\ lastOp' = [op |-> "startupCrash", wasOn |-> FALSE]
  /\ storage' = persistenceEffects(storage, FALSE, FALSE, mediaFiles, playlists, alarm,
                                   TRUE, TRUE, TRUE)
  /\ UNCHANGED <<call, alarmVars, cursorVars, mediaVars, ready, mediaDb, userInteracted, isiOS,
                 ticked>>

LegacyEntry(id) == [durationSec |-> MediaLength[id]]

StoredMedia ==
  {Missing, Corrupt, WrongShape, stringify([id \in {"a"} |-> KnownEntry(id)]),
   stringify([id \in {"a"} |-> LegacyEntry(id)])}

StoredPlaylists ==
  {Missing, Corrupt, WrongShape, stringify([p \in {"p1"} |-> <<"a">>]),
   stringify([p \in {"p1"} |-> <<>>])}

StoredAlarms ==
  {Missing, Corrupt,
   stringifyAlarm(DueAlarm),
   stringifyAlarm([DefaultAlarm EXCEPT !.playlistId = "p2", !.memo = "m"]),
   stringify([time |-> TimeString(23, 59)])}

InitStartup ==
  /\ call = NoCall
  /\ now \in {AlarmInstant - TicksPerHour, AlarmInstant + 5 * TicksPerMinute}
  /\ alarm = DefaultAlarm
  /\ playlists = <<>>
  /\ mediaFiles = <<>>
  /\ editingPlaylist = NoDraft
  /\ timers = {}
  /\ alarmTimeoutRef = 0
  /\ IdleCursor
  /\ userInteracted = FALSE
  /\ isiOS = FALSE
  /\ sessionUrls = [id \in MediaIds |-> NoUrl]
  /\ blobs = {"a"}
  /\ element = IdleElement
  /\ loads = <<>>
  /\ plays = <<>>
  /\ lastOp = [op |-> "init", wasOn |-> FALSE]
  /\ storage \in [media : StoredMedia, playlists : StoredPlaylists, alarm : StoredAlarms]
  /\ ready = FALSE
  /\ mediaDb = "open"
  /\ ticked = FALSE

NextStartup ==
  \/ StartupLoad
  \/ StartupCrash
  \/ \E t \in timers : AlarmFire(t)

SpecStartup == InitStartup /\ [][NextStartup]_vars

Unreadable(raw) == raw.kind \in {"missing", "corrupt"}

LoadFail(i) ==
  /\ i \in DOMAIN loads
  /\ Commit("loadFail", alarm, playlists, mediaFiles, editingPlaylist, Cursor,
            RemoveAt(loads, i), sessionUrls, Timers, FALSE, FALSE, FALSE, {}, FALSE)
  /\ UNCHANGED <<call, now, isiOS, blobs, plays>>

NextStore ==
  \/ NextPlayback
  \/ \E i \in 1..MaxLoads : LoadFail(i)

SpecStore == InitPlayback /\ [][NextStore]_vars

\* C14: when the blob read of the current track's load fails, the cursor makes a
\* legal move: it skips to the next track or finishes, and does not stay loading
\* the same index.
C14_ReadFailureAbsorbed ==
  [][(/\ lastOp'.op = "loadFail"
      /\ isPlaying
      /\ Len(loads) = 1 /\ ~loads[1].cancelled) =>
       \/ isPlaying' /\ currentTrackIndex' = currentTrackIndex + 1
       \/ Finished']_vars

(***************************************************************************)
(* Playback driven by the user: the start-now button of the playlist       *)
(* editor, the stop button and the manual-start button, with play()        *)
(* promises the platform may reject.                                       *)
(***************************************************************************)
\* the start-now button: startPlayback(editingPlaylist.id)
StartNow ==
  /\ editingPlaylist.id \in DOMAIN playlists
  /\ Len(editingPlaylist.fileIds) > 0
  /\ Commit("startPlayback", alarm, playlists, mediaFiles, editingPlaylist,
            startPlayback(Cursor, editingPlaylist.id, FALSE, playlists, isiOS, userInteracted),
            loads, sessionUrls, Timers, FALSE, FALSE, FALSE, {}, TRUE)
  /\ UNCHANGED <<call, now, isiOS, blobs, plays>>

\* the stop button: stopPlayback()
StopClick ==
  /\ Commit("stopPlayback", alarm, playlists, mediaFiles, editingPlaylist,
            stopPlayback(Cursor), loads, sessionUrls, Timers, FALSE, FALSE, FALSE, {}, TRUE)
  /\ UNCHANGED <<call, now, isiOS, blobs, plays>>

\* a play() promise rejects: the platform refuses to start, or the element was
\* paused or given another src before it started
PlayReject(i) ==
  /\ i \in DOMAIN plays
  /\ ~(plays[i].src = element.src /\ element.state = "playing")
  /\ plays' = RemoveAt(plays, i)
  /\ Commit("playReject", alarm, playlists, mediaFiles, editingPlaylist,
            playRejected(Cursor, \A j \in DOMAIN plays : j # i => plays[j].src # plays[i].src),
            loads, sessionUrls, Timers, FALSE, FALSE, FALSE, {}, FALSE)
  /\ UNCHANGED <<call, now, isiOS, blobs>>

HandleManualPlayWithoutPlay ==
  /\ needsManualPlay
  /\ plays' = plays
  /\ Commit("handleManualPlay", alarm, playlists, mediaFiles, editingPlaylist, Cursor,
            loads, sessionUrls, Timers, FALSE, FALSE, FALSE, {}, TRUE)
  /\ UNCHANGED <<call, now, isiOS, blobs>>

\* the manual-start button, shown while needsManualPlay: handleManualPlay()
HandleManualPlay ==
  /\ needsManualPlay
  /\ LET r == attemptPlay(Cursor, plays, isiOS, TRUE)
     IN /\ plays' = r.plays
        /\ Len(plays') <= MaxLoads
        /\ Commit("handleManualPlay", alarm, playlists, mediaFiles, editingPlaylist, r.c,
                  loads, sessionUrls, Timers, FALSE, FALSE, FALSE, {}, TRUE)
  /\ UNCHANGED <<call, now, isiOS, blobs>>

\* the page after a load: two saved playlists, every track with entry and duration
InitUser ==
  /\ call = NoCall
  /\ now = 0
  /\ alarm = DefaultAlarm
  /\ playlists = [p \in PlaylistIds |-> IF p = "p1" THEN <<"a", "b">> ELSE <<"c">>]
  /\ mediaFiles = [id \in MediaIds |-> KnownEntry(id)]
  /\ blobs \in {MediaIds, MediaIds \ {"a"}}
  /\ editingPlaylist = NoDraft
  /\ timers = {}
  /\ alarmTimeoutRef = 0
  /\ IdleCursor
  /\ userInteracted = FALSE
  /\ isiOS = FALSE
  /\ sessionUrls = [id \in MediaIds |-> NoUrl]
  /\ element = IdleElement
  /\ loads = <<>>
  /\ plays = <<>>
  /\ lastOp = [op |-> "init", wasOn |-> FALSE]
  /\ storage = Stored(mediaFiles, playlists, alarm)
  /\ ready = TRUE
  /\ mediaDb = "open"
  /\ ticked = FALSE

NextUser ==
  \/ \E id \in PlaylistIds : HandlePlaylistSelect(id)
  \/ StartNow
  \/ StopClick
  \/ \E i \in 1..MaxLoads : LoadSettle(i)
  \/ CanPlay
  \/ \E i \in 1..MaxLoads : PlayResolve(i)
  \/ \E i \in 1..MaxLoads : PlayReject(i)
  \/ HandleManualPlay
  \/ MediaProgress
  \/ Ended

SpecUser == InitUser /\ [][NextUser]_vars

\* the cursor at rest: no playback playlist, not playing
Idle == playbackPlaylistId = Null /\ ~isPlaying

\* C15: after stopPlayback a blob load issued before the stop has no effect on the
\* cursor when it settles: the index does not move, no handle becomes current and
\* the cursor stays Idle.
C15_LateLoadIgnored ==
  [][(lastOp'.op = "loadSettle" /\ Idle) =>
       /\ Idle'
       /\ currentTrackIndex' = currentTrackIndex
       /\ currentTrackUrl' = NoUrl
       /\ element' = element
       /\ UNCHANGED <<needsManualPlay, missingObjectUrl, playbackMessage, progressSnapshot>>]_vars

\* a load settled after the stop: its handle is cached, the cursor is still idle
C15_Witness ==
  /\ lastOp.op = "loadSettle"
  /\ Idle
  /\ playbackMessage = "started"
  /\ currentTrackUrl = NoUrl /\ currentTrackIndex = 0
  /\ \E id \in MediaIds : sessionUrls[id] # NoUrl

(***************************************************************************)
(* The media library and the playlist editor over a blob store that may    *)
(* be unavailable (indexedDB.open fails: mediaDbPromise resolves to null)  *)
(* or whose write transactions may fail.                                   *)
(***************************************************************************)
\* storeBlob(id, file): nothing without a database; ok: the put transaction completes
storeBlob(bl, db, id, ok) == IF db = "open" /\ ok THEN bl \cup {id} ELSE bl

\* handleUpload for one file: the entry is added unless `await storeBlob` throws.
\* durationSec is what readMediaDuration gives (0: undefined).
handleUpload(files, id, durationSec, db, ok) ==
  IF db = "open" /\ ~ok THEN files
  ELSE [f \in DOMAIN files \cup {id} |->
          IF f = id THEN [durationSec |-> durationSec, hasBlob |-> TRUE] ELSE files[f]]

\* the file input: one file is chosen; crypto.randomUUID() gives an id never used.
\* No other handler can name the id before the entry is added, so the awaits of
\* the handler are taken in one step.
HandleUpload(id, ok) ==
  /\ id \notin DOMAIN mediaFiles
  /\ id \notin blobs
  /\ sessionUrls[id] = NoUrl
  /\ blobs' = storeBlob(blobs, mediaDb, id, ok)
  /\ LET files == handleUpload(mediaFiles, id, MediaLength[id], mediaDb, ok)
     IN Commit("handleUpload", alarm, playlists, files, editingPlaylist, Cursor, loads,
               sessionUrls, Timers, FALSE, FALSE, files # mediaFiles, {}, TRUE)
  /\ UNCHANGED <<call, now, isiOS, plays>>

\* the ids of the files the user has
LibraryMediaIds == {"a", "b"}

\* a page loaded with one stored file and no playlist; the database of this
\* session opens or not
InitLibrary ==
  /\ call = NoCall
  /\ now = 0
  /\ alarm = DefaultAlarm
  /\ playlists = <<>>
  /\ mediaFiles = [id \in {"a"} |-> KnownEntry(id)]
  /\ blobs = {"a"}
  /\ editingPlaylist = NoDraft
  /\ timers = {}
  /\ alarmTimeoutRef = 0
  /\ IdleCursor
  /\ userInteracted = FALSE
  /\ isiOS = FALSE
  /\ sessionUrls = [id \in MediaIds |-> NoUrl]
  /\ element = IdleElement
  /\ loads = <<>>
  /\ plays = <<>>
  /\ lastOp = [op |-> "init", wasOn |-> FALSE]
  /\ storage = Stored(mediaFiles, playlists, alarm)
  /\ ready = TRUE
  /\ mediaDb \in {"open", "failed"}
  /\ ticked = FALSE

NextLibrary ==
  \/ \E id \in LibraryMediaIds, ok \in BOOLEAN : HandleUpload(id, ok)
  \/ \E id \in LibraryMediaIds, ok \in BOOLEAN : HandleRemoveMediaOutcome(id, ok)
  \/ HandleCreatePlaylist("p1")
  \/ \E id \in LibraryMediaIds : DraftAddTrack(id)
  \/ \E id \in LibraryMediaIds : DraftRemoveTrack(id)
  \/ HandlePlaylistSave
  \/ HandlePlaylistSelect("p1")
  \/ HandlePlaylistDelete

SpecLibrary == InitLibrary /\ [][NextLibrary]_vars

\* C16: an entry is added to the media list only if its blob was written: after
\* handleUpload every added entry with hasBlob = true has a blob under its id,
\* also when the blob store cannot be opened or the write fails.
C16_EntryOnlyWithBlob ==
  [][lastOp'.op = "handleUpload" =>
       \A id \in DOMAIN mediaFiles' \ DOMAIN mediaFiles :
         mediaFiles'[id].hasBlob => id \in blobs']_vars

RECURSIVE Contains(_, _)
Contains(ids, id) ==
  IF ids = <<>> THEN FALSE ELSE Head(ids) = id \/ Contains(Tail(ids), id)

\* C17: after a confirmed handleRemoveMedia(id) has run to its end the media
\* list has no entry for id, no saved playlist and no draft contains id at any position, and the blob
\* under id has been deleted.
C17_RemovalExcisesId ==
  [][\A id \in MediaIds :
       HandleRemoveMedia(id) =>
         /\ id \notin DOMAIN mediaFiles'
         /\ \A p \in DOMAIN playlists' : ~Contains(playlists'[p], id)
         /\ ~Contains(editingPlaylist'.fileIds, id)
         /\ id \notin blobs']_vars

(***************************************************************************)
(* Arming and firing.                                                      *)
(***************************************************************************)
\* C18: an armed alarm whose stored nextTrigger is not in the future when it is
\* scheduled (a trigger loaded from storage that has passed) gets a fresh
\* trigger first: no timer is scheduled with delay zero for a trigger already past.
C18_NoTimerForPastTrigger ==
  \A t \in timers : t.fireAt = t.target

\* C19: whenever isOn is false, or playlistId is null, or the time is unset, after
\* the scheduling effect there is no pending alarm timer and nextTrigger is cleared.
C19_UnarmedHasNoTrigger ==
  (~alarm.isOn \/ alarm.playlistId = Null \/ alarm.time = <<>>) =>
     (timers = {} /\ alarm.nextTrigger = Undefined)

\* C20: when the timer fires, playback is started from the alarm and the next
\* trigger is stored in the same step: right after the fire isOn is still true,
\* nextTrigger is the next occurrence of alarm.time strictly after the fire
\* instant, and one new timer is pending for it.
C20_FireRearms ==
  [][lastOp'.op = "alarmFire" =>
       /\ playbackMessage' \in {"startedByAlarm", "manualStartIOS", "noTracks"}
       /\ alarm'.isOn
       /\ alarm'.nextTrigger # Undefined
       /\ parseDate(alarm'.nextTrigger) > now
       /\ parseDate(alarm'.nextTrigger) <= now + TicksPerDay
       /\ parseDate(alarm'.nextTrigger) % TicksPerDay = TimeOfDay(alarm'.time)
       /\ Cardinality(timers') = 1
       /\ \A t \in timers' : t.target = parseDate(alarm'.nextTrigger) /\ t.fireAt = t.target]_vars

\* fired at 07:00 of day 0: playing, armed for 07:00 of day 1 with its timer pending
C20_Witness ==
  /\ lastOp.op = "alarmFire"
  /\ isPlaying
  /\ alarm.isOn
  /\ alarm.nextTrigger = toISOString(TicksPerDay + AlarmInstant)
  /\ \E t \in timers : t.fireAt = TicksPerDay + AlarmInstant

(***************************************************************************)
(* Disarming.                                                              *)
(***************************************************************************)
\* C21: from every state in which alarm.isOn is true, handleAlarmToggle (a disarm
\* request) leaves isOn false, nextTrigger cleared and no alarm timer pending.
C21_ToggleDisarms ==
  [][(lastOp'.op = "handleAlarmToggle" /\ alarm.isOn) =>
       /\ ~alarm'.isOn
       /\ alarm'.nextTrigger = Undefined
       /\ timers' = {}
       /\ alarmTimeoutRef' = 0]_vars

(***************************************************************************)
(* Skips and the end of the playlist.                                      *)
(***************************************************************************)
\* no track of the playing playlist can be resolved to a blob
NoneResolvable ==
  /\ playbackPlaylistId \in DOMAIN playlists
  /\ \A i \in DOMAIN playlists[playbackPlaylistId] :
       ~Resolvable(playlists[playbackPlaylistId][i])

\* C22: a started playlist of n >= 1 tracks none of which has a resolvable blob
\* terminates: the index moves one track at a time and never back, and the cursor
\* returns to Idle (no playback playlist, not playing).
C22_AllSkippedTerminates ==
  /\ [][(NoneResolvable /\ isPlaying) =>
          \/ Idle'
          \/ currentTrackIndex' = currentTrackIndex
          \/ currentTrackIndex' = currentTrackIndex + 1]_vars
  /\ (NoneResolvable /\ isPlaying) ~> Idle

\* C23: on the ended event while the track at index i of the playback playlist
\* plays: if i + 1 is less than the number of tracks the cursor moves to index
\* i + 1 of the same playlist and stays active; otherwise the cursor goes to Idle
\* (playback playlist id null, index 0, not playing) with the finished message.
C23_EndedAdvancesOrFinishes ==
  [][(lastOp'.op = "ended" /\ PlayingTrack) =>
       IF currentTrackIndex + 1 < Len(playlists[playbackPlaylistId])
       THEN /\ playbackPlaylistId' = playbackPlaylistId
            /\ currentTrackIndex' = currentTrackIndex + 1
            /\ isPlaying'
       ELSE /\ playbackPlaylistId' = Null
            /\ currentTrackIndex' = 0
            /\ ~isPlaying'
            /\ playbackMessage' = "finished"]_vars

\* the second and last track of p1 has ended after the first: the cursor is idle
C23_Witness ==
  /\ lastOp.op = "ended"
  /\ Idle
  /\ currentTrackIndex = 0
  /\ playbackMessage = "finished"
  /\ sessionUrls["a"] # NoUrl /\ sessionUrls["b"] # NoUrl
  /\ element.src = NoUrl

(***************************************************************************)
(* A session of the loaded page: the alarm is edited, armed and fires, the *)
(* user starts and stops playlists, removes media and deletes playlists    *)
(* while a playback runs, and time passes.                                 *)
(***************************************************************************)
SessionMediaIds == {"a", "b"}

SessionInstants == {AlarmInstant, AlarmInstant + 5 * TicksPerMinute}

InitSession ==
  /\ call = NoCall
  /\ now = 0
  /\ alarm = DefaultAlarm
  /\ playlists = [p \in {"p1"} |-> <<"a", "b">>]
  /\ mediaFiles = [id \in SessionMediaIds |-> KnownEntry(id)]
  /\ blobs = SessionMediaIds
  /\ editingPlaylist = NoDraft
  /\ timers = {}
  /\ alarmTimeoutRef = 0
  /\ IdleCursor
  /\ userInteracted = FALSE
  /\ isiOS = FALSE
  /\ sessionUrls = [id \in MediaIds |-> NoUrl]
  /\ element = IdleElement
  /\ loads = <<>>
  /\ plays = <<>>
  /\ lastOp = [op |-> "init", wasOn |-> FALSE]
  /\ storage = Stored(mediaFiles, playlists, alarm)
  /\ ready = TRUE
  /\ mediaDb = "open"
  /\ ticked = FALSE

NextSession ==
  \/ HandleAlarmToggle
  \/ \E value \in {"p1", Null} : AlarmPlaylistChange(value)
  \/ \E t \in timers : AlarmFire(t)
  \/ \E n \in SessionInstants : ClockAdvance(n)
  \/ HandlePlaylistSelect("p1")
  \/ StartNow
  \/ StopClick
  \/ \E id \in SessionMediaIds : HandleRemoveMedia(id)
  \/ HandlePlaylistDelete
  \/ \E i \in 1..MaxLoads : LoadSettle(i)
  \/ CanPlay
  \/ \E i \in 1..MaxLoads : PlayResolve(i)
  \/ MediaProgress
  \/ Ended

SpecSession == InitSession /\ [][NextSession]_vars

\* C24: when playback finishes by exhausting the playlist while the alarm is
\* armed (isOn), the finishing step recomputes nextTrigger from alarm.time: at
\* Finished the armed alarm's nextTrigger is set and strictly in the future
\* (no alarm timer being overdue at that moment).
C24_FinishRecomputesTrigger ==
  [][(/\ isPlaying /\ Finished' /\ alarm.isOn
      /\ \A t \in timers : t.fireAt > now) =>
       /\ alarm'.nextTrigger # Undefined
       /\ parseDate(alarm'.nextTrigger) > now]_vars

(***************************************************************************)
(* Stopping, manual start and external removal.                            *)
(***************************************************************************)
\* C25: stopPlayback, called in any cursor state (loading, playing, awaiting
\* manual start, idle), pauses the media element and rewinds it to 0 and leaves
\* the cursor Idle: playback playlist id null, index 0, not playing, current
\* handle null, needsManualPlay false, progress {remaining 0, percent 0}.
C25_StopResetsCursor ==
  [][lastOp'.op = "stopPlayback" =>
       /\ playbackPlaylistId' = Null
       /\ currentTrackIndex' = 0
       /\ ~isPlaying'
       /\ currentTrackUrl' = NoUrl
       /\ ~needsManualPlay'
       /\ progressSnapshot' = [remaining |-> 0, percent |-> 0]
       /\ element'.currentTime = 0
       /\ element'.state \notin {"starting", "playing"}]_vars

\* the stop button was pressed while the second track of p1 was playing
C25_Witness ==
  /\ lastOp.op = "stopPlayback"
  /\ Idle
  /\ playbackMessage = "playing"
  /\ sessionUrls["b"] # NoUrl
  /\ element.currentTime = 0

\* the same session where what does not wait for the user does happen: blob reads
\* settle and the media element loads, starts, plays on and ends
FairSpecSession ==
  /\ InitSession /\ [][NextSession]_vars
  /\ WF_vars(\E i \in 1..MaxLoads : LoadSettle(i))
  /\ WF_vars(CanPlay)
  /\ WF_vars(\E i \in 1..MaxLoads : PlayResolve(i))
  /\ WF_vars(MediaProgress)
  /\ WF_vars(Ended)

\* C26: if, while the cursor is active, the playing playlist is deleted or the
\* track at the current index is removed, so that the index resolves to no entry,
\* the cursor treats this as the end of the playlist: it moves on to a track that
\* resolves or it returns to Idle; it does not stay active with no current track.
C26_RemovalEndsPlayback ==
  (/\ isPlaying
   /\ playbackPlaylistId # Null
   /\ lastOp.op \in {"handlePlaylistDelete", "handleRemoveMedia"}
   /\ currentTrack(playbackPlaylistId, currentTrackIndex, playlists, mediaFiles) = Null)
    ~> (\/ Idle
        \/ currentTrack(playbackPlaylistId, currentTrackIndex, playlists, mediaFiles) # Null)

\* C27: when the play() attempt for the track at index i is rejected while the
\* cursor is active on that track, the cursor enters AwaitingManualStart(i):
\* needsManualPlay becomes true, the playlist id and the index are unchanged, the
\* cursor stays active and no track is skipped.
C27_RejectedPlayAwaitsManualStart ==
  [][\A i \in 1..MaxLoads :
       (PlayReject(i) /\ isPlaying /\ plays[i].src = currentTrackUrl) =>
         /\ needsManualPlay'
         /\ playbackPlaylistId' = playbackPlaylistId
         /\ currentTrackIndex' = currentTrackIndex
         /\ isPlaying'
         /\ currentTrackUrl' = currentTrackUrl
         /\ PhaseOf' = <<"AwaitingManualStart", currentTrackIndex>>]_vars

\* the play() of the second track of p1 was rejected
C27_Witness ==
  /\ lastOp.op = "playReject"
  /\ isPlaying
  /\ needsManualPlay
  /\ playbackMessage = "autoplayBlocked"
  /\ playbackPlaylistId = "p1"
  /\ currentTrackIndex = 1
  /\ currentTrackUrl = sessionUrls["b"]
  /\ element.src = currentTrackUrl
  /\ element.state = "ready"

\* the cursor awaits a manual start of the track at the current index: the
\* handle of that track is the current one and the element carries it
AwaitingManualStart ==
  /\ isPlaying
  /\ needsManualPlay
  /\ currentTrackUrl # NoUrl
  /\ currentTrackUrl[1] = currentTrack(playbackPlaylistId, currentTrackIndex, playlists,
                                       mediaFiles)
  /\ element.src = currentTrackUrl

C29_CacheHitOrSingleRead ==
  [][/\ Len(loads') > Len(loads) =>
          /\ Len(loads') = Len(loads) + 1
          /\ sessionUrls'[loads'[Len(loads')].fileId] = NoUrl
     /\ \A i \in 1..MaxLoads :
          (/\ LoadSettle(i)
           /\ ~readBlob(blobs, mediaDb, loads[i].fileId)) =>
             /\ sessionUrls' = sessionUrls
             /\ Len(loads') <= Len(loads)
             /\ currentTrackUrl' = NoUrl \/ currentTrackUrl'[1] # loads[i].fileId
                  \/ currentTrackUrl' = currentTrackUrl
     /\ ((playbackPlaylistId' # playbackPlaylistId \/ currentTrackIndex' # currentTrackIndex)
         /\ isPlaying'
         /\ currentTrack(playbackPlaylistId', currentTrackIndex', playlists', mediaFiles') # Null
         /\ sessionUrls'[currentTrack(playbackPlaylistId', currentTrackIndex', playlists',
                                      mediaFiles')] # NoUrl) =>
          /\ Len(loads') <= Len(loads)
          /\ currentTrackUrl' = sessionUrls'[currentTrack(playbackPlaylistId', currentTrackIndex',
                                                          playlists', mediaFiles')]]_vars

\* the blob of the first track of p1 was not found and nothing was cached for it;
\* the cached handle of the second track became current without a read
C29_Witness ==
  /\ lastOp.op = "loadSettle"
  /\ "a" \notin blobs
  /\ sessionUrls["a"] = NoUrl
  /\ sessionUrls["b"] # NoUrl
  /\ playbackPlaylistId = "p1"
  /\ currentTrackIndex = 1
  /\ currentTrackUrl = sessionUrls["b"]
  /\ loads = <<>>

\* C30: during a session the handle cache is append-only: once a handle is cached
\* for a track id, no operation (resolution, playback, media removal) removes or
\* replaces that entry.
C30_CacheAppendOnly ==
  [][\A id \in MediaIds :
       sessionUrls[id] # NoUrl => sessionUrls'[id] = sessionUrls[id]]_vars

(***************************************************************************)
(* The progress reporter.                                                  *)
(***************************************************************************)
\* the stored duration of the track at position i of a playlist: 0 when the id
\* has no entry or the entry has no duration
StoredSeconds(fileIds, i) ==
  IF fileIds[i] \in DOMAIN mediaFiles THEN mediaFiles[fileIds[i]].durationSec ELSE 0

\* the sum of the stored durations of the first n tracks
RECURSIVE SecondsOfFirst(_, _)
SecondsOfFirst(fileIds, n) ==
  IF n = 0 THEN 0 ELSE SecondsOfFirst(fileIds, n - 1) + StoredSeconds(fileIds, n)

\* C31: every progress tick reports, with total the sum of durationSec over all
\* tracks of the playing playlist (unknown or dangling counted as 0) and played
\* the sum over the tracks before the current index plus the elapsed seconds of
\* the current handle: remaining = max(total - played, 0) and percent =
\* round(100 * played / total) clamped to [0, 100], 0 when total is 0; and the
\* tick can always be taken while a track is current, whatever durations lack.
C31_TickFormula ==
  /\ [][lastOp'.op = "progressTick" =>
          LET fileIds == playlists[playbackPlaylistId]
              total == SecondsOfFirst(fileIds, Len(fileIds))
              played == SecondsOfFirst(fileIds, currentTrackIndex) + element.currentTime
              pct == progressSnapshot'.percent
          IN /\ progressSnapshot'.remaining = (IF total > played THEN total - played ELSE 0)
             /\ pct \in 0..100
             /\ total = 0 => pct = 0
             /\ (total > 0 /\ played >= total) => pct = 100
             /\ (total > 0 /\ played < total) =>
                  /\ 2 * total * pct <= 200 * played + total
                  /\ 200 * played + total < 2 * total * (pct + 1)]_vars
  /\ []((/\ isPlaying
         /\ playbackPlaylistId \in DOMAIN playlists
         /\ currentTrack(playbackPlaylistId, currentTrackIndex, playlists, mediaFiles) # Null)
          => ENABLED ProgressTick)

\* the third track has no stored duration: ten seconds into it the played seconds
\* exceed the total, and the tick reports remaining 0 and percent 100
C31_Witness ==
  /\ lastOp.op = "progressTick"
  /\ DOMAIN mediaFiles = MediaIds
  /\ mediaFiles["c"].durationSec = 0
  /\ mediaFiles["a"].durationSec = 10 /\ mediaFiles["b"].durationSec = 20
  /\ currentTrackIndex = 2
  /\ element.currentTime = 10
  /\ progressSnapshot = [remaining |-> 0, percent |-> 100]

(***************************************************************************)
(* Restarts: the start-now button pressed again while a playback is        *)
(* active, with blob reads of the earlier cursor still pending.            *)
(***************************************************************************)
NextRestart ==
  \/ \E id \in PlaylistIds : HandlePlaylistSelect(id)
  \/ StartNow
  \/ \E i \in 1..MaxLoads : LoadSettle(i)
  \/ CanPlay
  \/ \E i \in 1..MaxLoads : PlayResolve(i)
  \/ MediaProgress
  \/ Ended

SpecRestart == InitUser /\ [][NextRestart]_vars

\* the loads whose result setup() will still use
LiveLoads == {i \in DOMAIN loads : ~loads[i].cancelled}

\* C32: a startPlayback issued while a playback is active, a blob load of the
\* earlier cursor pending or not, replaces the cursor: afterwards the one cursor
\* is at index 0 of the new playlist, the only load still live is that of its
\* current track, and a load of the earlier cursor that settles later neither
\* becomes the current handle nor moves the new cursor.
C32_RestartReplacesCursor ==
  /\ [][(lastOp'.op = "startPlayback" /\ isPlaying) =>
          /\ playbackPlaylistId' = editingPlaylist.id
          /\ currentTrackIndex' = 0
          /\ isPlaying']_vars
  /\ [](/\ Cardinality(LiveLoads) <= 1
        /\ \A i \in LiveLoads :
             /\ isPlaying
             /\ loads[i].fileId = currentTrack(playbackPlaylistId, currentTrackIndex,
                                               playlists, mediaFiles))
  /\ [][\A i \in 1..MaxLoads :
          (LoadSettle(i) /\ loads[i].cancelled) =>
            UNCHANGED <<playbackPlaylistId, currentTrackIndex, isPlaying, currentTrackUrl,
                        missingObjectUrl, needsManualPlay, playbackMessage, element>>]_vars

\* p2 was started while the second track of p1 was loading; that load has
\* settled since: its handle is cached, the cursor is on the first track of p2
C32_Witness ==
  /\ lastOp.op = "loadSettle"
  /\ playbackPlaylistId = "p2"
  /\ currentTrackIndex = 0
  /\ isPlaying
  /\ sessionUrls["b"] # NoUrl
  /\ sessionUrls["c"] = NoUrl
  /\ currentTrackUrl # sessionUrls["b"]
  /\ loads = <<[fileId |-> "c", cancelled |-> FALSE]>>

(***************************************************************************)
(* Time strings that are no clock time.                                    *)
(***************************************************************************)
\* the strings made of exactly two digits, a colon and two digits
TwoDigitColonTwoDigit ==
  {<<DigitChars[a], DigitChars[b], ":", DigitChars[c], DigitChars[d]>> :
     a \in 1..10, b \in 1..10, c \in 1..10, d \in 1..10}

\* C33: calculateNextTrigger returns null, never an instant, for every time
\* string that is not exactly two digits, a colon and two digits, the empty
\* string included.
C33_NoTriggerForBadTime ==
  (call.fn = "calculateNextTrigger" /\ call.time \notin TwoDigitColonTwoDigit) =>
     call.ret = NoDate

\* a time with seconds, 07:00:00, gives no trigger
C33_Witness ==
  /\ call.fn = "calculateNextTrigger"
  /\ call.time = <<"0", "7", ":", "0", "0", ":", "0", "0">>
  /\ call.ret = NoDate

(***************************************************************************)
(* Late continuations.                                                     *)
(***************************************************************************)
\* C34: after stopPlayback needsManualPlay stays false while the cursor is Idle:
\* a play() that was pending at the stop and settles afterwards neither raises
\* the flag nor changes the status message, and in every reachable state
\* needsManualPlay implies that the cursor is not Idle.
C34_NoManualFlagWhileIdle ==
  /\ [](needsManualPlay => ~Idle)
  /\ [][(Idle /\ lastOp'.op \in {"playReject", "playResolve"}) =>
          UNCHANGED <<needsManualPlay, playbackMessage>>]_vars

(***************************************************************************)
(* What a pending timer stands for.                                        *)
(***************************************************************************)
\* C35: the alarm starts playback only while it is armed: in every reachable
\* state a pending alarm timer implies isOn, a playlistId and a nextTrigger, the
\* timer is for that playlist and that trigger, and the playlist a fire starts is
\* the playlistId the alarm has at the fire, never one selected before.
C35_TimerOnlyWhileArmed ==
  /\ [](\A t \in timers :
          /\ alarm.isOn
          /\ alarm.playlistId # Null
          /\ alarm.nextTrigger # Undefined
          /\ t.playlistId = alarm.playlistId
          /\ t.target = parseDate(alarm.nextTrigger))
  /\ [][lastOp'.op = "alarmFire" =>
          /\ alarm.isOn
          /\ IF Unplayable(alarm.playlistId, playlists)
             THEN playbackPlaylistId' = Null
             ELSE playbackPlaylistId' = alarm.playlistId /\ isPlaying']_vars

\* the alarm has fired on p2, the playlist it has: p2 is playing from its start
C35_Witness ==
  /\ lastOp = [op |-> "alarmFire", wasOn |-> TRUE]
  /\ alarm.playlistId = "p2"
  /\ playbackPlaylistId = "p2"
  /\ currentTrackIndex = 0
  /\ isPlaying
  /\ playbackMessage = "startedByAlarm"

\* C36: while the alarm is armed with a valid time, nextTrigger falls on the clock
\* time alarm.time: a change of the time while armed stores the trigger of the new
\* time in the same update, the pending timer is for that trigger, and a fire
\* happens for the time the alarm has, never for the time configured before.
C36_TriggerFollowsTime ==
  /\ []((alarm.isOn /\ IsClockTime(alarm.time)) =>
          /\ alarm.nextTrigger # Undefined
          /\ parseDate(alarm.nextTrigger) % TicksPerDay = TimeOfDay(alarm.time)
          /\ \A t \in timers : t.time = alarm.time /\ t.target = parseDate(alarm.nextTrigger))
  /\ [][(lastOp'.op = "alarmTimeChange" /\ alarm.isOn /\ IsClockTime(alarm'.time)) =>
          /\ alarm'.isOn
          /\ parseDate(alarm'.nextTrigger) > now
          /\ parseDate(alarm'.nextTrigger) <= now + TicksPerDay
          /\ parseDate(alarm'.nextTrigger) % TicksPerDay = TimeOfDay(alarm'.time)]_vars
  /\ [][lastOp'.op = "alarmFire" =>
          \A t \in timers :
            /\ t.time = alarm.time
            /\ IsClockTime(t.time)
            /\ t.target % TicksPerDay = TimeOfDay(alarm.time)]_vars

\* the time of the armed alarm was changed from 07:00 to 23:59: the trigger and
\* the timer are for 23:59
C36_Witness ==
  /\ lastOp = [op |-> "alarmTimeChange", wasOn |-> TRUE]
  /\ alarm.isOn
  /\ alarm.time = TimeString(23, 59)
  /\ alarm.nextTrigger = toISOString(23 * TicksPerHour + 59 * TicksPerMinute)
  /\ \E t \in timers : t.fireAt = 23 * TicksPerHour + 59 * TicksPerMinute

(***************************************************************************)
(* Playlists that repeat a track: the alarm fires on a playlist of one to  *)
(* three tracks over two media files, every blob stored, and the playback  *)
(* is left to run.                                                         *)
(***************************************************************************)
RepeatMediaIds == {"a", "b"}

\* the playlists the editor can save over two files: any order, repeats allowed
RepeatPlaylists ==
  UNION {[1..n -> RepeatMediaIds] : n \in 1..MaxTracks}

InitRepeat ==
  /\ call = NoCall
  /\ now = AlarmInstant
  /\ alarm = DueAlarm
  /\ \E fileIds \in RepeatPlaylists : playlists = [p \in {"p1"} |-> fileIds]
  /\ mediaFiles = [id \in RepeatMediaIds |-> KnownEntry(id)]
  /\ blobs = RepeatMediaIds
  /\ editingPlaylist = NoDraft
  /\ timers = {[id |-> 1, fireAt |-> AlarmInstant, target |-> AlarmInstant,
                playlistId |-> "p1", time |-> TimeString(7, 0)]}
  /\ alarmTimeoutRef = 1
  /\ IdleCursor
  /\ userInteracted = FALSE
  /\ isiOS = FALSE
  /\ sessionUrls = [id \in MediaIds |-> NoUrl]
  /\ element = IdleElement
  /\ loads = <<>>
  /\ plays = <<>>
  /\ lastOp = [op |-> "init", wasOn |-> FALSE]
  /\ storage = Stored(mediaFiles, playlists, alarm)
  /\ ready = TRUE
  /\ mediaDb = "open"
  /\ ticked = FALSE

SpecRepeat == InitRepeat /\ [][NextPlayback]_vars

\* blob reads settle, the due timer fires, the media element loads, starts,
\* plays on and ends
FairSpecRepeat ==
  /\ InitRepeat /\ [][NextPlayback]_vars
  /\ WF_vars(\E t \in timers : AlarmFire(t))
  /\ WF_vars(\E i \in 1..MaxLoads : LoadSettle(i))
  /\ WF_vars(CanPlay)
  /\ WF_vars(\E i \in 1..MaxLoads : PlayResolve(i))
  /\ WF_vars(MediaProgress)
  /\ WF_vars(Ended)

\* the track at index k has just completed and the next position holds the same id
RepeatAfter(k) ==
  /\ lastOp.op = "ended"
  /\ isPlaying
  /\ playbackPlaylistId \in DOMAIN playlists
  /\ currentTrackIndex = k + 1
  /\ k + 2 <= Len(playlists[playbackPlaylistId])
  /\ playlists[playbackPlaylistId][k + 1] = playlists[playbackPlaylistId][k + 2]

\* C37: in a playlist with the same track id at the consecutive positions i and
\* i + 1, after the track at index i completes the track at index i + 1 is played
\* and the playback goes on to Finished and Idle.
C37_RepeatedTrackPlays ==
  \A k \in 0..(MaxTracks - 2) :
    /\ RepeatAfter(k) ~> (PhaseOf = <<"Playing", k + 1>>)
    /\ RepeatAfter(k) ~> (Finished /\ Idle)

(***************************************************************************)
(* Overlapping resolutions of one track id.                                *)
(***************************************************************************)
\* C38: a handle materialized by loadTrackUrl stays in the cache under its track
\* id: when a blob read settles (also one that overlapped another read of the same
\* id), it never replaces a handle already cached for that id, which nothing would
\* release afterwards.
C38_NoHandleOverwritten ==
  [][\A i \in 1..MaxLoads :
       LoadSettle(i) =>
         \A id \in MediaIds :
           sessionUrls[id] # NoUrl => sessionUrls'[id] = sessionUrls[id]]_vars

(***************************************************************************)
(* Startup followed by a session: the persisted records.                   *)
(***************************************************************************)
\* The handlers run on the mounted page, that is after the first commit and its
\* effects: after the startup load.
NextPersist ==
  \/ StartupLoad
  \/ StartupCrash
  \/ ready /\ HandleAlarmToggle
  \/ ready /\ \E value \in Memos : AlarmMemoChange(value)
  \/ ready /\ \E value \in PlaylistIds \cup {Null} : AlarmPlaylistChange(value)
  \/ ready /\ \E t \in timers : AlarmFire(t)
  \/ ready /\ \E id \in {"a"} : HandleRemoveMedia(id)
  \/ ready /\ \E id \in PlaylistIds : HandlePlaylistSelect(id)
  \/ ready /\ HandlePlaylistDelete

SpecPersist == InitStartup /\ [][NextPersist]_vars

\* C39: no persisted record is written while ready is false (the startup load has
\* not completed, or it threw); the startup load writes back what it loaded, so a
\* readable playlist record keeps its value and is not replaced by the empty
\* default; and once ready is true the three records always hold the current
\* media list, playlist list and alarm.
C39_WriteBackAfterReady ==
  /\ [][~ready' => storage' = storage]_vars
  /\ [][(lastOp'.op = "startupLoad" /\ storage.playlists.kind = "json") =>
          storage'.playlists = storage.playlists]_vars
  /\ [](ready => storage = Stored(mediaFiles, playlists, alarm))

\* the stored playlist and armed alarm were loaded, then the alarm was switched
\* off: the playlist record is the one that was stored and the alarm record
\* holds the new alarm
C39_Witness ==
  /\ ready
  /\ lastOp.op = "handleAlarmToggle"
  /\ playlists = [p \in {"p1"} |-> <<"a">>]
  /\ storage.playlists = stringify(playlists)
  /\ ~alarm.isOn
  /\ storage.alarm = stringifyAlarm(alarm)

====
